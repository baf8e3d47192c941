---------------------------- MODULE ApkValidation ----------------------------
(***************************************************************************)
(* ValidateAPK and findInstalledPackageName of AbstractYModemServer: is an *)
(* uploaded APK to be installed over what is there?                        *)
(***************************************************************************)
EXTENDS Integers, Sequences

CONSTANTS
    Installed,  \* the apps of the company that are on the device
    NoApp,      \* a null package name
    Downloader  \* the package the code takes for its own, never the target

\* What findInstalledPackageName may return, with its version: the first package
\* of a list in the package manager's own order that is not the downloader's; or
\* null, when there is none or pm cannot be run.
FindInstalledPackage == {a \in Installed : a.package # Downloader} \cup {NoApp}

\* apk is what getPackageArchiveInfo returns, NoApp for an unreadable file.
SamePackage(apk, app) == apk.package = app.package

IsNewer(apk, app) == apk.version > app.version

\* Mutant: an archive that cannot be read is not noticed.
ValidateWithoutArchive(apk, isForceUpdate, app) ==
    \/ app = NoApp
    \/ isForceUpdate

\* getIsUpdate of the ApkValidationResult, for the package app that was found.
ValidateAPK(apk, isForceUpdate, app) ==
    /\ apk # NoApp
    /\ app # NoApp => isForceUpdate \/ (SamePackage(apk, app) /\ IsNewer(apk, app))
=============================================================================
