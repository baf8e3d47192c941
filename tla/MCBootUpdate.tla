---------------------------- MODULE MCBootUpdate ----------------------------
(***************************************************************************)
(* Instances of BootUpdate for TLC.                                        *)
(***************************************************************************)
EXTENDS BootUpdate

Archive(p, v, readable, installs) ==
    [package |-> p, version |-> v, readable |-> readable, installs |-> installs]

MCPackages == {"smartrtu", "menutestactivity"}

\* Newer, older (to be forced) and another package, all of which install.
GoodArchives ==
    {Archive("smartrtu", 3, TRUE, TRUE), Archive("smartrtu", 1, TRUE, TRUE),
     Archive("menutestactivity", 1, TRUE, TRUE)}

\* One that cannot be read, and one that the package manager refuses.
AllArchives ==
    GoodArchives \cup
        {Archive("smartrtu", 4, FALSE, FALSE), Archive("smartrtu", 5, TRUE, FALSE)}
=============================================================================
