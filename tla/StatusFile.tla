----------------------------- MODULE StatusFile -----------------------------
(***************************************************************************)
(* The file RtuStatus.json under syncData: a session reads it, stamps the  *)
(* time into it, truncates and rewrites it, and reads it back for the      *)
(* answer, with no lock and no second file.  Sessions overlap: that of a   *)
(* server that has been stopped goes on beside those of the next one, and  *)
(* the process may end between any two steps.                              *)
(*                                                                         *)
(* The content is the time it is stamped with: the other values are those  *)
(* of createDummyData in every version of the file, so all have one length *)
(* and a write replaces the one before as a whole.  A write that stops     *)
(* half-way in a whole file leaves it whole: the time in it, a mixture, is *)
(* taken for the old one or the new one.                                   *)
(***************************************************************************)
EXTENDS Naturals

CONSTANTS
    Sessions,   \* bound: each asks for the status once
    Absent,     \* there is no file
    Empty,      \* it has no byte
    Broken,     \* it ends in the middle of the JSON text
    MaxKills    \* bound: ends of the process

ASSUME StatusAssumption ==
    /\ Absent \notin Nat
    /\ Empty \notin Nat \cup {Absent}
    /\ Broken \notin Nat \cup {Absent, Empty}
    /\ MaxKills \in Nat

VARIABLES
    file,       \* the time in it, Absent, Empty or Broken
    clock,      \* times that were taken
    at,         \* where each session is
    stamp,      \* its snapshot.timestamp
    answer,     \* what it sent
    overlap,    \* history: sessions that did not have the file to themselves
    damaged,    \* history: a write failed, or the process ended before one
    kills

histories == <<overlap, damaged>>
vars == <<file, clock, at, stamp, answer, overlap, damaged, kills>>

Places == {"idle", "exists", "load", "stamp", "open", "write", "reread", "answered",
           "failed", "gone"}

Working(s) == at[s] \in {"exists", "load", "stamp", "open", "write", "reread"}

Writers == {s \in Sessions : at[s] = "write"}

\* What no session can load.
Torn == {Empty, Broken}

-----------------------------------------------------------------------------
Step(s, from, to) == at[s] = from /\ at' = [at EXCEPT ![s] = to]

\* The header of the client asks for the status.
Begin(s) ==
    /\ Step(s, "idle", "exists")
    /\ LET others == {r \in Sessions : Working(r)}
       IN  overlap' = IF others = {} THEN overlap ELSE overlap \cup others \cup {s}
    /\ UNCHANGED <<file, clock, stamp, answer, damaged, kills>>

\* Without a file the snapshot is that of createDummyData.
Exists(s) ==
    /\ Step(s, "exists", IF file = Absent THEN "stamp" ELSE "load")
    /\ UNCHANGED <<file, clock, stamp, answer, histories, kills>>

\* Mutant: what cannot be loaded is replaced by dummy data.
LoadRepairs(s) ==
    /\ Step(s, "load", "stamp")
    /\ UNCHANGED <<file, clock, stamp, answer, histories, kills>>

\* From an empty file fromJson makes null, and the assignment to its timestamp
\* an exception that only handleYModemTransmission catches, as it does the
\* JsonSyntaxException that fromJson throws at a broken one.
Load(s) ==
    /\ Step(s, "load", IF file \in Torn THEN "failed" ELSE "stamp")
    /\ UNCHANGED <<file, clock, stamp, answer, histories, kills>>

TakeTime(s) ==
    /\ Step(s, "stamp", "open")
    /\ clock' = clock + 1
    /\ stamp' = [stamp EXCEPT ![s] = clock + 1]
    /\ UNCHANGED <<file, answer, histories, kills>>

\* FileOutputStream(file, false).
Open(s) ==
    /\ Step(s, "open", "write")
    /\ file' = Empty
    /\ UNCHANGED <<clock, stamp, answer, histories, kills>>

OpenFails(s) ==
    /\ Step(s, "open", "failed")
    /\ UNCHANGED <<file, clock, stamp, answer, histories, kills>>

\* Mutant: what was written is not flushed before it is read back.
WriteLater(s) ==
    /\ Step(s, "write", "reread")
    /\ UNCHANGED <<file, clock, stamp, answer, histories, kills>>

Write(s) ==
    /\ Step(s, "write", "reread")
    /\ file' = stamp[s]
    /\ UNCHANGED <<clock, stamp, answer, histories, kills>>

\* What a write that is interrupted leaves: nothing written, a part, or all.
PartlyWritten(s) == {file, stamp[s]} \cup (IF file \in Torn THEN {Broken} ELSE {})

\* The device is full: syncData returns false, and the session ends.
WriteFails(s) ==
    /\ Step(s, "write", "failed")
    /\ file' \in PartlyWritten(s)
    /\ damaged' = TRUE
    /\ UNCHANGED <<clock, stamp, answer, overlap, kills>>

\* readJsonFile again, and what it returns is sent, be it nothing.
Answer(s) ==
    /\ Step(s, "reread", "answered")
    /\ answer' = [answer EXCEPT ![s] = file]
    /\ UNCHANGED <<file, clock, stamp, histories, kills>>

\* The file cannot be read, or the client does not get the answer: an IOException,
\* after which syncData returns false.
ReadOrAnswerFails(s) ==
    /\ \E from \in {"load", "reread"} : Step(s, from, "failed")
    /\ UNCHANGED <<file, clock, stamp, answer, histories, kills>>

SessionStep(s) ==
    \/ Begin(s) \/ Exists(s) \/ Load(s) \/ TakeTime(s) \/ Open(s) \/ OpenFails(s)
    \/ Write(s) \/ WriteFails(s) \/ Answer(s) \/ ReadOrAnswerFails(s)

Kill ==
    /\ kills < MaxKills
    /\ kills' = kills + 1
    /\ at' = [s \in Sessions |-> IF Working(s) THEN "gone" ELSE at[s]]
    /\ file' \in {file} \cup UNION {PartlyWritten(s) : s \in Writers}
    /\ damaged' = (damaged \/ Writers # {})
    /\ UNCHANGED <<clock, stamp, answer, overlap>>

Init ==
    /\ file = Absent
    /\ clock = 0
    /\ at = [s \in Sessions |-> "idle"]
    /\ stamp = [s \in Sessions |-> 0]
    /\ answer = [s \in Sessions |-> Absent]
    /\ overlap = {}
    /\ damaged = FALSE
    /\ kills = 0

Next == Kill \/ \E s \in Sessions : SessionStep(s)

Spec == Init /\ [][Next]_vars

-----------------------------------------------------------------------------
(* Properties                                                              *)

TypeOK ==
    /\ file \in Nat \cup {Absent, Empty, Broken}
    /\ clock \in Nat
    /\ at \in [Sessions -> Places]
    /\ stamp \in [Sessions -> Nat]
    /\ answer \in [Sessions -> Nat \cup {Absent, Empty, Broken}]
    /\ overlap \subseteq Sessions
    /\ damaged \in BOOLEAN
    /\ kills \in 0..MaxKills

\* The file cannot be loaded for no reason but these: a session has truncated it and
\* is about to write it, or one was and its write failed or the process ended.
\* However sessions overlap, they leave it whole.
TornHasCause ==
    file \in Torn => damaged \/ (file = Empty /\ Writers # {})

\* A session that had the file to itself answers with the time it has taken
\* itself, and finds a file it cannot load only after damage: with the policy of one
\* connection at a time no client is answered with nothing or with the past.
AloneIsAnswered ==
    \A s \in Sessions \ overlap :
        /\ at[s] = "answered" => answer[s] = stamp[s]
        /\ at[s] = "load" /\ file \in Torn => damaged

\* No session has passed the reading of a file that cannot be loaded.
Stuck(torn) ==
    /\ file = torn
    /\ \A s \in Sessions : at[s] \notin {"stamp", "open", "write"}

\* An empty or broken file that nobody is about to write stays so: every session
\* that asks for the status from then on, in this process and the next, fails
\* before it writes, as only a file that is absent is replaced by dummy data.
TornForEver == \A torn \in Torn : [](Stuck(torn) => [](file = torn))

\* What keeps them: sessions that work at the same time know it, and one that works
\* alone finds the file as it has left it.
StatusInv ==
    /\ TypeOK
    /\ \A r, s \in Sessions : Working(r) /\ Working(s) /\ r # s => {r, s} \subseteq overlap
    /\ \A s \in Sessions \ overlap :
           /\ at[s] = "load" => file # Absent
           /\ at[s] = "reread" => file = stamp[s]
    /\ TornHasCause
    /\ AloneIsAnswered
=============================================================================
