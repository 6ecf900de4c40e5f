------------------------- MODULE Commissioning_proofs -------------------------
(***************************************************************************)
(* Commissioning for any set of images and commands and any number of      *)
(* resets and faults: an image is applied over erased storage, a command   *)
(* is answered once, and success means that a network was formed.          *)
(*                                                                         *)
(* Unless something failed, a parked image whose restore is done waits for *)
(* its restart, or for the boot after it, with storage erased (Blank); a   *)
(* formation that is pending has not been answered (Pending).              *)
(***************************************************************************)
EXTENDS Commissioning, TLAPS

Blank ==
  ~disturbed =>
    /\ phase = "applying" \/ restart => storage = "none"
    /\ blob # "none" /\ storing = "none" => storage = "none" /\ (restart \/ phase = "off")

Handling == storing # "none" => phase \in {"starting", "loaded", "up"}

Parked == Blank /\ Handling

Pending ==
  /\ answer \in [Request -> {"none", "ok", "error", "busy", "started"}]
  /\ formation # "none" => formation \in Request /\ answer[formation] = "none"
  /\ signal = "formed" => formed
------------------------------------------------------------------------------
LEMMA Names == "none" \notin Image /\ "none" \notin Request
BY CommissioningAssumption

\* What a restart leaves of a state in which it was due, or of a disturbed one.
LEMMA RebootParks ==
  ASSUME Parked, Reboot, disturbed' \/ (restart /\ disturbed' = disturbed)
  PROVE  Parked'
<1>1. /\ phase' = "off" /\ restart' = FALSE /\ storing' = "none" /\ storage' = storage
  BY DEF Reboot, flash
<1>2. ASSUME ~disturbed' PROVE storage = "none"
  BY <1>2 DEF Parked, Blank
<1> QED BY <1>1, <1>2 DEF Parked, Blank, Handling

LEMMA ParkedNext == Parked /\ [Next]_vars => Parked'
<1> SUFFICES ASSUME Parked, [Next]_vars PROVE Parked'
  OBVIOUS
\* Steps of a boot that takes commands, which touch nothing of this.
<1>same. ASSUME UNCHANGED <<blob, storage, storing, restart>>, disturbed => disturbed',
                phase' = phase \/ (phase' \notin {"off", "applying"} /\ storing = "none"
                                   /\ (phase = "off" => blob = "none"))
         PROVE  Parked'
  BY <1>same DEF Parked, Blank, Handling
\* The stack saves: within the second before a restart this is a disturbance.
<1>saved. ASSUME UNCHANGED <<blob, storing, restart, phase>>, phase \in {"starting", "loaded", "up"},
                 storing = "none", disturbed' = (disturbed \/ restart)
          PROVE  Parked'
  BY <1>saved DEF Parked, Blank, Handling
<1>1. CASE TakeBlob
  <2>1. phase = "off" /\ blob # "none" /\ storing = "none" /\ UNCHANGED <<storage, storing, restart>>
    BY <1>1 DEF TakeBlob, Parked, Handling
  <2>2. CASE phase' = "applying" /\ blob' = "none" /\ NoFault
    BY <2>1, <2>2 DEF NoFault, Parked, Blank, Handling
  <2>3. CASE Fault
    BY <2>1, <2>3 DEF Fault, Parked, Blank, Handling
  <2> QED BY <1>1, <2>2, <2>3 DEF TakeBlob
<1>2. CASE NoBlob
  BY <1>same, <1>2 DEF NoBlob, flash, history, Parked, Handling
<1>3. CASE Plant
  <2>1. CASE Reboot /\ disturbed' = TRUE
    BY <2>1, RebootParks
  <2>2. CASE phase' = "initialised" /\ UNCHANGED <<flash, storing, restart, history>>
    BY <1>3, <1>same, <2>2 DEF Plant, flash, history, Parked, Handling
  <2> QED BY <1>3, <2>1, <2>2 DEF Plant
<1>4. CASE Start
  BY <1>same, <1>4 DEF Start, flash, Parked, Handling
<1>5. CASE SkipStartup
  BY <1>same, <1>5 DEF SkipStartup, BigLockFree, flash, history
<1>6. CASE ContinueZboss
  BY <1>same, <1>6 DEF ContinueZboss, BigLockFree, flash, history
<1>7. CASE BdbEnds
  <2>1. /\ phase \in {"starting", "loaded", "up"} /\ storing = "none"
        /\ UNCHANGED <<blob, storing, restart, phase>>
    BY <1>7 DEF BdbEnds, BigLockFree
  <2>2. CASE disturbed' = (disturbed \/ restart)
    BY <1>saved, <2>1, <2>2
  <2>3. CASE UNCHANGED storage /\ (Fault \/ UNCHANGED disturbed)
    BY <1>same, <2>1, <2>3 DEF Fault
  <2> QED BY <1>7, <2>2, <2>3 DEF BdbEnds
<1>8. CASE FormationSignal
  BY <1>same, <1>8 DEF FormationSignal, Fault
<1>9. CASE StartSignal
  BY <1>same, <1>9 DEF StartSignal, flash, history
<1>10. CASE Save
  BY <1>saved, <1>10 DEF Save, BigLockFree
<1>11. CASE Erase
  <2>1. CASE storage' = "none" /\ restart' = TRUE
    BY <1>11, <2>1 DEF Erase, Parked, Blank, Handling
  <2>2. CASE Fault
    BY <1>11, <2>2 DEF Erase, Fault, Parked, Blank, Handling
  <2> QED BY <1>11, <2>1, <2>2 DEF Erase
<1>12. CASE OutsideReset
  BY <1>12, RebootParks DEF OutsideReset
<1>13. CASE DeferredRestart
  BY <1>13, RebootParks DEF DeferredRestart
<1>14. ASSUME NEW r \in Request, NwkFormation(r) \/ NwkStartWithoutFormation(r) PROVE Parked'
  BY <1>same, <1>14 DEF NwkFormation, NwkStartWithoutFormation, flash
<1>15. ASSUME NEW i \in Image, StoreBlob(i) PROVE Parked'
  <2>1. phase \in {"starting", "loaded", "up"} /\ UNCHANGED <<storage, phase, restart>>
    BY <1>15 DEF StoreBlob, CanHandle
  <2>2. CASE blob' = i /\ storing' = i /\ UNCHANGED disturbed
    BY <2>1, <2>2, Names DEF Parked, Blank, Handling
  <2>3. CASE disturbed' = TRUE /\ UNCHANGED <<blob, storing>>
    BY <2>1, <2>3 DEF Parked, Blank, Handling
  <2> QED BY <1>15, <2>2, <2>3 DEF StoreBlob
<1>16. CASE SetParameters
  BY <1>same, <1>16 DEF SetParameters, flash, history
<1>17. CASE UNCHANGED vars
  BY <1>same, <1>17 DEF vars, flash, history
<1> QED BY <1>1, <1>2, <1>3, <1>4, <1>5, <1>6, <1>7, <1>8, <1>9, <1>10, <1>11, <1>12, <1>13,
           <1>14, <1>15, <1>16, <1>17 DEF Next, BootStep, Zboss
------------------------------------------------------------------------------
LEMMA PendingInit == Init => Pending
BY DEF Init, Pending

\* TakeFormation answers what was pending, which had no answer.
LEMMA TakeAnswers ==
  ASSUME Pending, NEW how \in {"ok", "error"}, TakeFormation(how), formed' = formed,
         signal' = "formed" => formed
  PROVE  /\ Pending'
         /\ \A r \in Request : answer[r] # "none" => answer'[r] = answer[r]
         /\ \A r \in Request : answer'[r] = "ok" => answer[r] = "ok" \/ how = "ok"
BY DEF TakeFormation, Pending

\* One step, and what it does to answers.
AnswersKept == \A r \in Request : answer[r] # "none" => answer'[r] = answer[r]
OkOnFormed == \A r \in Request : answer[r] = "none" /\ answer'[r] = "ok" => formed

LEMMA PendingNext == Pending /\ [Next]_vars => Pending' /\ AnswersKept /\ OkOnFormed
<1> SUFFICES ASSUME Pending, [Next]_vars PROVE Pending' /\ AnswersKept /\ OkOnFormed
  OBVIOUS
<1>typed. answer \in [Request -> {"none", "ok", "error", "busy", "started"}]
  BY DEF Pending
\* Neither formation nor answer is touched.
<1>same. ASSUME UNCHANGED <<formation, answer>>, signal' = "formed" => formed'
         PROVE  Pending' /\ AnswersKept /\ OkOnFormed
  BY <1>same DEF Pending, AnswersKept, OkOnFormed
<1>reboot. ASSUME Reboot PROVE Pending' /\ AnswersKept /\ OkOnFormed
  BY <1>reboot DEF Reboot, Pending, AnswersKept, OkOnFormed
\* An answer other than success to a command that had none.
<1>answers. ASSUME NEW r \in Request, answer[r] = "none", NEW how \in {"error", "busy", "started"},
                   answer' = [answer EXCEPT ![r] = how], formation' \in {"none", formation},
                   formation' # r, signal' = signal, formed' = formed
            PROVE  Pending' /\ AnswersKept /\ OkOnFormed
  BY <1>answers DEF Pending, AnswersKept, OkOnFormed
<1>1. CASE TakeBlob
  BY <1>1, <1>same DEF TakeBlob, zboss, Pending
<1>2. CASE NoBlob
  BY <1>2, <1>same DEF NoBlob, zboss, history, Pending
<1>3. CASE Plant
  BY <1>3, <1>same, <1>reboot DEF Plant, history, Pending
<1>4. CASE Start
  BY <1>4, <1>same DEF Start, zboss, Pending
<1>5. CASE SkipStartup
  BY <1>5, <1>same DEF SkipStartup, history, Pending
<1>6. CASE ContinueZboss
  <2>1. signal' = signal /\ formed' = formed
    BY <1>6 DEF ContinueZboss
  <2>2. CASE UNCHANGED <<formation, answer>>
    BY <1>same, <2>1, <2>2 DEF Pending
  <2>3. CASE TakeFormation("error")
    <3>1. signal' = "formed" => formed
      BY <2>1 DEF Pending
    <3> QED BY <2>1, <2>3, <3>1, TakeAnswers DEF AnswersKept, OkOnFormed
  <2> QED BY <1>6, <2>2, <2>3 DEF ContinueZboss
<1>7. CASE BdbEnds
  <2>1. signal' = "formed" => formed'
    BY <1>7 DEF BdbEnds
  <2> QED BY <1>7, <1>same, <2>1 DEF BdbEnds
<1>8. CASE FormationSignal
  <2>1. /\ signal' = "none" /\ formed' = formed
        /\ TakeFormation(IF signal = "formed" THEN "ok" ELSE "error")
    BY <1>8 DEF FormationSignal
  <2>2. signal = "formed" => formed
    BY DEF Pending
  <2>3. CASE signal = "formed"
    BY <2>1, <2>2, <2>3, TakeAnswers DEF AnswersKept, OkOnFormed
  <2>4. CASE signal # "formed"
    BY <2>1, <2>4, TakeAnswers DEF AnswersKept, OkOnFormed
  <2> QED BY <2>3, <2>4
<1>9. CASE StartSignal
  BY <1>9, <1>same DEF StartSignal, history
<1>10. CASE Save
  BY <1>10, <1>same DEF Save, zboss, Pending
<1>11. CASE Erase
  BY <1>11, <1>same DEF Erase, zboss, Pending
<1>12. CASE OutsideReset \/ DeferredRestart
  BY <1>12, <1>reboot DEF OutsideReset, DeferredRestart
<1>13. ASSUME NEW r \in Request, NwkFormation(r) PROVE Pending' /\ AnswersKept /\ OkOnFormed
  <2>1. answer[r] = "none" /\ formation # r /\ signal' = signal /\ formed' = formed /\ r # "none"
    BY <1>13, Names DEF NwkFormation
  <2>2. CASE Refused(r)
    BY <1>answers, <2>1, <2>2 DEF Refused
  <2>3. CASE answer' = [answer EXCEPT ![r] = "busy"] /\ UNCHANGED formation
    BY <1>answers, <2>1, <2>3
  <2>4. CASE formation' = r /\ UNCHANGED answer
    BY <2>1, <2>4 DEF Pending, AnswersKept, OkOnFormed
  <2> QED BY <1>13, <2>2, <2>3, <2>4 DEF NwkFormation
<1>14. ASSUME NEW r \in Request, NwkStartWithoutFormation(r) PROVE Pending' /\ AnswersKept /\ OkOnFormed
  <2>1. /\ answer[r] = "none" /\ formation # r /\ formation' = formation
        /\ answer' = [answer EXCEPT ![r] = "started"] /\ signal' = signal /\ formed' = formed
    BY <1>14 DEF NwkStartWithoutFormation, zboss
  <2> QED BY <1>answers, <2>1
<1>15. ASSUME NEW i \in Image, StoreBlob(i) PROVE Pending' /\ AnswersKept /\ OkOnFormed
  BY <1>15, <1>same DEF StoreBlob, zboss, Pending
<1>16. CASE SetParameters
  BY <1>16, <1>same DEF SetParameters, history, Pending
<1>17. CASE UNCHANGED vars
  BY <1>17, <1>same DEF vars, zboss, history, Pending
<1> QED BY <1>1, <1>2, <1>3, <1>4, <1>5, <1>6, <1>7, <1>8, <1>9, <1>10, <1>11, <1>12, <1>13,
           <1>14, <1>15, <1>16, <1>17 DEF Next, BootStep, Zboss

LEMMA PendingAlways == Spec => []Pending
<1>1. Pending /\ [Next]_vars => Pending'
  BY PendingNext
<1> QED BY PendingInit, <1>1, PTL DEF Spec
------------------------------------------------------------------------------
\* Unless something failed or the stack saved in the second before the restart, an
\* image is applied over erased storage only (apply_pending_restore, SDK issue 445).
THEOREM AppliesOnBlank == Spec => []AppliedOnBlank
<1>1. Init => Parked
  BY DEF Init, Parked, Blank, Handling
<1>2. Parked => AppliedOnBlank
  BY DEF Parked, Blank, AppliedOnBlank
<1> QED BY <1>1, <1>2, ParkedNext, PTL DEF Spec

\* A command is answered once, by its refusal, by continue_zboss or by a signal,
\* whichever is first (zb_ncp.cpp, delayed_cmd_process::response).
THEOREM AnswersOnce == Spec => AnsweredOnce
<1>1. Pending /\ [Next]_vars => [\A r \in Request : answer[r] # "none" => answer'[r] = answer[r]]_vars
  BY PendingNext DEF AnswersKept
<1> QED BY PendingAlways, <1>1, PTL DEF Spec, AnsweredOnce

\* NWK_FORMATION is answered with success only in a boot that formed a network.
THEOREM SuccessMeansFormed == Spec => OkMeansFormed
<1>1. Pending /\ [Next]_vars => [\A r \in Request : answer[r] = "none" /\ answer'[r] = "ok" => formed]_vars
  BY PendingNext DEF OkOnFormed
<1> QED BY PendingAlways, <1>1, PTL DEF Spec, OkMeansFormed
==============================================================================
