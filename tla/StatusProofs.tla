---------------------------- MODULE StatusProofs ----------------------------
(***************************************************************************)
(* The status file under any number of sessions and ends of the process.   *)
(***************************************************************************)
EXTENDS StatusFile, TLAPS

LEMMA InitStatusInv == Init => StatusInv
  <1> SUFFICES ASSUME Init PROVE StatusInv
      OBVIOUS
  <1>1. TypeOK
    <2>1. kills \in 0..MaxKills
        BY StatusAssumption DEF Init
    <2>2. at \in [Sessions -> Places] /\ stamp \in [Sessions -> Nat]
        BY DEF Init, Places
    <2> QED BY <2>1, <2>2 DEF Init, TypeOK
  <1>2. \A s \in Sessions : at[s] = "idle" /\ ~Working(s)
      BY DEF Init, Working
  <1> QED BY <1>1, <1>2, StatusAssumption DEF Init, StatusInv, TornHasCause,
          Torn, AloneIsAnswered

\* A session at another place than s is where it was.
LEMMA OthersStay ==
    ASSUME TypeOK, NEW s \in Sessions, NEW from, NEW to, Step(s, from, to)
    PROVE  /\ at[s] = from /\ at'[s] = to
           /\ \A r \in Sessions : r # s => at'[r] = at[r]
           /\ to \in Places => at' \in [Sessions -> Places]
    BY DEF TypeOK, Step

LEMMA BeginKeepsInv ==
    ASSUME StatusInv, NEW s \in Sessions, Begin(s)
    PROVE  StatusInv'
  <1> DEFINE others == {r \in Sessions : Working(r)}
  <1>1. /\ at[s] = "idle" /\ at'[s] = "exists"
        /\ \A r \in Sessions : r # s => at'[r] = at[r]
        /\ at' \in [Sessions -> Places]
      BY OthersStay DEF Begin, StatusInv, Places
  <1>2. /\ overlap' = IF others = {} THEN overlap ELSE overlap \cup others \cup {s}
        /\ UNCHANGED <<file, clock, stamp, answer, damaged, kills>>
      BY DEF Begin
  <1>3. TypeOK'
      BY <1>1, <1>2 DEF StatusInv, TypeOK
  <1>4. ASSUME NEW p \in Sessions, NEW r \in Sessions, Working(p)', Working(r)', p # r
        PROVE  {p, r} \subseteq overlap'
    <2>1. CASE p # s /\ r # s
      <3>1. Working(p) /\ Working(r)
          BY <1>1, <1>4, <2>1 DEF Working
      <3> QED BY <1>2, <1>4, <3>1 DEF StatusInv
    <2>2. ASSUME NEW q \in {p, r}, q # s
          PROVE  q \in others
        BY <1>1, <1>4, <2>2 DEF Working
    <2> QED BY <1>2, <1>4, <2>1, <2>2
  <1>5. overlap \subseteq overlap'
      BY <1>2
  <1>6. TornHasCause'
      BY <1>1, <1>2 DEF StatusInv, TornHasCause, Writers
  <1>7. AloneIsAnswered'
      BY <1>1, <1>2, <1>5 DEF StatusInv, AloneIsAnswered
  <1> QED BY <1>1, <1>2, <1>3, <1>4, <1>5, <1>6, <1>7 DEF StatusInv

\* A session that works while s does is no session that works alone.
LEMMA AloneMeansAlone ==
    ASSUME StatusInv, NEW s \in Sessions, Working(s), NEW r \in Sessions \ overlap
    PROVE  r = s \/ ~Working(r)
    BY DEF StatusInv

LEMMA ReadKeepsInv ==
    ASSUME StatusInv, NEW s \in Sessions, Exists(s) \/ Load(s) \/ TakeTime(s)
    PROVE  StatusInv'
  <1>1. PICK to \in {"stamp", "load", "failed", "open"} :
            /\ at'[s] = to
            /\ to = "load" => at[s] = "exists" /\ file # Absent
      BY OthersStay DEF Exists, Load, TakeTime, StatusInv, Places
  <1>2. /\ at[s] \in {"exists", "load", "stamp"}
        /\ \A r \in Sessions : r # s => at'[r] = at[r]
        /\ at' \in [Sessions -> Places]
        /\ UNCHANGED <<file, answer, histories, kills>>
      BY OthersStay DEF Exists, Load, TakeTime, StatusInv, Places
  <1>3. /\ clock' \in Nat /\ stamp' \in [Sessions -> Nat]
        /\ \A r \in Sessions : r # s => stamp'[r] = stamp[r]
      BY DEF Exists, Load, TakeTime, StatusInv, TypeOK
  <1>4. \A r \in Sessions : Working(r)' => Working(r)
      BY <1>1, <1>2 DEF Working
  <1>5. TypeOK'
      BY <1>2, <1>3 DEF StatusInv, TypeOK, histories
  <1>6. TornHasCause'
      BY <1>2 DEF StatusInv, TornHasCause, Writers, histories
  <1>7. ASSUME NEW r \in Sessions \ overlap'
        PROVE  /\ at'[r] = "load" => file' # Absent
               /\ at'[r] = "reread" => file' = stamp'[r]
               /\ at'[r] = "answered" => answer'[r] = stamp'[r]
               /\ at'[r] = "load" /\ file' \in Torn => damaged'
    <2>1. CASE r # s
        BY <1>2, <1>3, <1>7, <2>1 DEF StatusInv, AloneIsAnswered, histories
    <2>2. CASE r = s
      <3>1. ASSUME file \in Torn, to = "load" PROVE damaged
        <4>1. Working(s)
            BY <1>2 DEF Working
        <4>2. \A q \in Sessions : at[q] # "write"
            BY <1>2, <1>7, <2>2, <4>1 DEF StatusInv, Working, histories
        <4> QED BY <3>1, <4>2 DEF StatusInv, TornHasCause, Writers
      <3> QED BY <1>1, <1>2, <2>2, <3>1 DEF histories
    <2> QED BY <2>1, <2>2
  <1> QED BY <1>2, <1>4, <1>5, <1>6, <1>7 DEF StatusInv, AloneIsAnswered, histories

LEMMA WriteKeepsInv ==
    ASSUME StatusInv, NEW s \in Sessions,
           Open(s) \/ OpenFails(s) \/ Write(s) \/ WriteFails(s)
    PROVE  StatusInv'
  <1>1. /\ at[s] \in {"open", "write"}
        /\ at'[s] \in {"write", "failed", "reread"}
        /\ \A r \in Sessions : r # s => at'[r] = at[r]
        /\ at' \in [Sessions -> Places]
        /\ UNCHANGED <<clock, stamp, answer, overlap, kills>>
      BY OthersStay DEF Open, OpenFails, Write, WriteFails, StatusInv, Places, histories
  <1>2. /\ file' \in {file, Empty, Broken, stamp[s]}
        /\ at'[s] = "reread" => file' = stamp[s]
        /\ damaged' \in BOOLEAN /\ (damaged => damaged')
        /\ \/ damaged'
           \/ at'[s] = "write" /\ file' = Empty
           \/ at[s] = "open" /\ file' = file
           \/ file' \notin Torn
    <2>1. stamp[s] \notin Torn /\ damaged \in BOOLEAN
        BY StatusAssumption DEF StatusInv, TypeOK, Torn
    <2>2. CASE Open(s) \/ OpenFails(s)
        BY <2>1, <2>2, OthersStay DEF Open, OpenFails, StatusInv, histories
    <2>3. CASE Write(s)
        BY <2>1, <2>3, OthersStay DEF Write, StatusInv, histories
    <2>4. CASE WriteFails(s)
        BY <2>1, <2>4, OthersStay DEF WriteFails, PartlyWritten, StatusInv
    <2> QED BY <2>2, <2>3, <2>4
  <1>3. Working(s) /\ \A r \in Sessions : Working(r)' => Working(r)
      BY <1>1 DEF Working
  <1>4. TypeOK'
      BY <1>1, <1>2 DEF StatusInv, TypeOK
  <1>5. TornHasCause'
    <2>1. CASE at'[s] = "write" /\ file' = Empty
        BY <1>1, <2>1 DEF TornHasCause, Writers
    <2>2. CASE at[s] = "open" /\ file' = file
        BY <1>1, <1>2, <2>2 DEF StatusInv, TornHasCause, Writers
    <2> QED BY <1>2, <2>1, <2>2 DEF TornHasCause
  <1>6. ASSUME NEW r \in Sessions \ overlap'
        PROVE  /\ at'[r] = "load" => file' # Absent
               /\ at'[r] = "reread" => file' = stamp'[r]
               /\ at'[r] = "answered" => answer'[r] = stamp'[r]
               /\ at'[r] = "load" /\ file' \in Torn => damaged'
    <2>1. CASE r # s
      <3>1. ~Working(r)
          BY <1>1, <1>3, <1>6, <2>1, AloneMeansAlone
      <3> QED BY <1>1, <2>1, <3>1, <1>6 DEF Working, StatusInv, AloneIsAnswered
    <2>2. CASE r = s
        BY <1>1, <1>2, <2>2
    <2> QED BY <2>1, <2>2
  <1> QED BY <1>1, <1>3, <1>4, <1>5, <1>6 DEF StatusInv, AloneIsAnswered

LEMMA AnswerKeepsInv ==
    ASSUME StatusInv, NEW s \in Sessions, Answer(s) \/ ReadOrAnswerFails(s)
    PROVE  StatusInv'
  <1>1. /\ at[s] \in {"load", "reread"} /\ at'[s] \in {"answered", "failed"}
        /\ \A r \in Sessions : r # s => at'[r] = at[r]
        /\ at' \in [Sessions -> Places]
        /\ UNCHANGED <<file, clock, stamp, overlap, damaged, kills>>
      BY OthersStay DEF Answer, ReadOrAnswerFails, StatusInv, Places, histories
  <1>2. /\ answer' \in {answer, [answer EXCEPT ![s] = file]}
        /\ at'[s] = "answered" => at[s] = "reread" /\ answer' = [answer EXCEPT ![s] = file]
      BY OthersStay DEF Answer, ReadOrAnswerFails, StatusInv
  <1>3. TypeOK'
      BY <1>1, <1>2 DEF StatusInv, TypeOK
  <1>4. \A r \in Sessions : Working(r)' => Working(r)
      BY <1>1 DEF Working
  <1>5. TornHasCause'
      BY <1>1 DEF StatusInv, TornHasCause, Writers
  <1>6. AloneIsAnswered'
      BY <1>1, <1>2 DEF StatusInv, TypeOK, AloneIsAnswered
  <1> QED BY <1>1, <1>3, <1>4, <1>5, <1>6 DEF StatusInv

LEMMA KillKeepsInv ==
    ASSUME StatusInv, Kill
    PROVE  StatusInv'
  <1>1. /\ at' = [s \in Sessions |-> IF Working(s) THEN "gone" ELSE at[s]]
        /\ damaged' = (damaged \/ Writers # {})
        /\ kills' \in 0..MaxKills
        /\ UNCHANGED <<clock, stamp, answer, overlap>>
      BY StatusAssumption DEF Kill, StatusInv, TypeOK
  <1>0. /\ file' \in Nat \cup {Absent, Empty, Broken}
        /\ Writers = {} => file' = file
    <2>1. file' = file \/ \E s \in Writers : file' \in PartlyWritten(s)
        BY DEF Kill
    <2> QED BY <2>1 DEF PartlyWritten, Writers, StatusInv, TypeOK
  <1>2. TypeOK'
      BY <1>0, <1>1 DEF StatusInv, TypeOK, Places
  <1>3. \A s \in Sessions : ~Working(s)'
      BY <1>1 DEF Working
  <1>4. TornHasCause'
      BY <1>0, <1>1 DEF StatusInv, TornHasCause
  <1>5. AloneIsAnswered'
    <2>1. \A s \in Sessions : at'[s] # "load" /\ (at'[s] = "answered" => at[s] = "answered")
        BY <1>1 DEF Working
    <2> QED BY <1>1, <2>1 DEF StatusInv, AloneIsAnswered
  <1>6. \A s \in Sessions : at'[s] \notin {"load", "reread"}
      BY <1>3 DEF Working
  <1> QED BY <1>2, <1>3, <1>4, <1>5, <1>6 DEF StatusInv

LEMMA StepKeepsStatusInv == StatusInv /\ [Next]_vars => StatusInv'
  <1> SUFFICES ASSUME StatusInv, [Next]_vars PROVE StatusInv'
      OBVIOUS
  <1>1. CASE Kill
      BY <1>1, KillKeepsInv
  <1>2. ASSUME NEW s \in Sessions, SessionStep(s)
        PROVE  StatusInv'
      BY <1>2, BeginKeepsInv, ReadKeepsInv, WriteKeepsInv, AnswerKeepsInv DEF SessionStep
  <1>3. CASE UNCHANGED vars
      BY <1>3 DEF vars, histories, StatusInv, TypeOK, TornHasCause, AloneIsAnswered,
         Writers, Working
  <1> QED BY <1>1, <1>2, <1>3 DEF Next

\* However many sessions share the file, it can be loaded, but while one is about to
\* write it, or after damage.
THEOREM FileIsWhole == Spec => [](StatusInv /\ TornHasCause)
  <1>1. StatusInv => TornHasCause
      BY DEF StatusInv
  <1> QED BY <1>1, InitStatusInv, StepKeepsStatusInv, PTL DEF Spec

\* A session that has the file to itself answers with its own time.
THEOREM AloneAnswersItsTime == Spec => []AloneIsAnswered
  <1>1. StatusInv => AloneIsAnswered
      BY DEF StatusInv
  <1> QED BY <1>1, InitStatusInv, StepKeepsStatusInv, PTL DEF Spec

LEMMA StepKeepsStuck ==
    ASSUME NEW torn \in Torn, Stuck(torn), StatusInv, [Next]_vars
    PROVE  Stuck(torn)'
  <1>1. file # Absent /\ file \in Torn /\ Writers = {}
      BY StatusAssumption DEF Stuck, Torn, Writers
  <1>2. CASE Kill
    <2>1. file' = file
        BY <1>1, <1>2 DEF Kill
    <2> QED BY <1>2, <2>1 DEF Kill, Stuck, Working, StatusInv, TypeOK
  <1>3. ASSUME NEW s \in Sessions, SessionStep(s)
        PROVE  Stuck(torn)'
    <2>1. Begin(s) \/ Exists(s) \/ Load(s) \/ Answer(s) \/ ReadOrAnswerFails(s)
        BY <1>3 DEF SessionStep, Stuck, TakeTime, Open, OpenFails, Write, WriteFails, Step
    <2>2. file' = file /\ at'[s] \in {"exists", "load", "failed", "answered"}
        BY <1>1, <2>1, OthersStay DEF Begin, Exists, Load, Answer, ReadOrAnswerFails,
           StatusInv
    <2>3. \A r \in Sessions : r # s => at'[r] = at[r]
        BY <2>1, OthersStay DEF Begin, Exists, Load, Answer, ReadOrAnswerFails, StatusInv
    <2> QED BY <2>2, <2>3 DEF Stuck
  <1>4. CASE UNCHANGED vars
      BY <1>4 DEF vars, Stuck
  <1> QED BY <1>2, <1>3, <1>4 DEF Next

\* Once the file cannot be loaded and nobody is about to write it, it is so for ever.
THEOREM StuckForEver == Spec => TornForEver
  <1>1. ASSUME NEW torn \in Torn
        PROVE  Spec => [](Stuck(torn) => [](file = torn))
    <2>1. Stuck(torn) /\ StatusInv /\ [Next]_vars => Stuck(torn)'
        BY StepKeepsStuck
    <2>2. Stuck(torn) => file = torn
        BY DEF Stuck
    <2> QED BY <2>1, <2>2, InitStatusInv, StepKeepsStatusInv, PTL DEF Spec
  <1> QED BY <1>1 DEF TornForEver
=============================================================================
