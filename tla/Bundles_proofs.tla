---------------------------- MODULE Bundles_proofs ----------------------------
(* Theorems about Bundles for any bundles, components, versions and plans,   *)
(* any number of commands and any number of failures.                        *)
EXTENDS Bundles, TLAPS

-----------------------------------------------------------------------------
(* The inductive invariant *)

Applying == cmd.phase \in {"apply", "stale", "save"}
Ours == records[cmd.bundle].contributed
Waiting == IF cmd.phase = "apply" THEN cmd.todo ELSE {}

\* What a record holds: nothing without a release, and a contribution only to
\* what the bundle requires.
RecordsSound ==
  /\ \A b \in Bundle : ~Recorded(b) => Needs(records[b]) = {}
  /\ RecordsLoad

\* What a running command is about to do.
CommandSound ==
  /\ cmd.done \subseteq cmd.contributed
  /\ Applying => /\ cmd.contributed \subseteq Needs(cmd.plan)
                 /\ ~Clashes(cmd.bundle, cmd.plan)
                 /\ ~cmd.refresh => Ours \subseteq Needs(cmd.plan)
  /\ cmd.phase = "apply" => cmd.todo \subseteq Needs(cmd.plan)
  /\ cmd.phase = "undo" => cmd.todo \subseteq cmd.done
  /\ cmd.phase = "remove" => cmd.done = {} /\ Needs(cmd.plan) = {}
  /\ cmd.phase \in {"stale", "remove"} =>
       cmd.todo \subseteq Ours \ StillNeeded(cmd.bundle)
  /\ cmd.phase = "stale" => cmd.refresh /\ cmd.todo \intersect Needs(cmd.plan) = {}

\* The user's own components belong to no record and to no command.
IndependentSound ==
  \A c \in independent :
    installed[c] # "none" /\ c \notin Tracked(records) /\ c \notin cmd.contributed

\* Who answers for a component that is installed, and what a command still has
\* to do before its bundle may let go of one.
Accounted ==
  /\ \A c \in Component : installed[c] # "none" =>
       c \in Tracked(records) \union independent \union lost
              \union (IF cmd.phase = "undo" THEN cmd.todo ELSE cmd.done)
  /\ Applying => Ours \intersect Needs(cmd.plan) \subseteq Waiting \union cmd.contributed
  /\ cmd.phase \in {"stale", "remove"} \/ (cmd.phase = "save" /\ cmd.refresh) =>
       \A c \in Ours : \/ c \in Needs(cmd.plan) \/ installed[c] = "none"
                       \/ c \in StillNeeded(cmd.bundle)
                       \/ cmd.phase \in {"stale", "remove"} /\ c \in cmd.todo

\* A component stands at a version that this bundle and the others accept.
Suits(c) ==
  /\ installed[c] # "none"
  /\ Meets(c, installed[c], cmd.plan.needs[c])
  /\ \A o \in Others(cmd.bundle) : Meets(c, installed[c], records[o].needs[c])

\* What waits fits the pins, and what was applied suits everybody.
Fits ==
  /\ cmd.phase = "apply" => \A c \in cmd.todo :
       IF cmd.plan.needs[c] = "any"
       THEN UnpinnedFits(cmd.bundle, cmd.refresh, c)
       ELSE PinnedFits(cmd.bundle, cmd.plan, cmd.refresh, c)
  /\ Applying => \A c \in Needs(cmd.plan) \ Waiting : Suits(c)

IInv == /\ TypeOK /\ RecordsSound /\ PinsAgree /\ CommandSound
        /\ IndependentSound /\ Accounted /\ Fits

-----------------------------------------------------------------------------
(* Records *)

\* What the absence of a command looks like.
LEMMA IdleIsIdle ==
  /\ Idle.phase = "idle" /\ Idle.done = {} /\ Idle.contributed = {} /\ Idle.todo = {}
  /\ Idle.bundle = "none" /\ Idle.refresh = FALSE
BY DEF Idle

CmdRecord == [phase : {"apply", "stale", "save", "undo", "remove"}, bundle : Bundle,
              plan : Plan \union {NoPlan}, refresh : BOOLEAN,
              todo : SUBSET Component, done : SUBSET Component,
              contributed : SUBSET Component]

\* What is handed over was released and tracked by nobody, its heir requires
\* it, and nothing else changes.
LEMMA TransferKeeps ==
  ASSUME NEW recs \in [Bundle -> Record], NEW released \in SUBSET Component,
         NEW after, Transfer(recs, released, after)
  PROVE  /\ after \in [Bundle -> Record]
         /\ \A b \in Bundle :
              /\ after[b].needs = recs[b].needs /\ after[b].release = recs[b].release
              /\ recs[b].contributed \subseteq after[b].contributed
              /\ \A c \in after[b].contributed \ recs[b].contributed :
                   c \in released \ Tracked(recs) /\ c \in Needs(recs[b])
         /\ \A c \in released, b \in Bundle :
              c \in Needs(recs[b]) => c \in Tracked(after)
<1> DEFINE homeless == {c \in released \ Tracked(recs) :
                          \E b \in Bundle : c \in Needs(recs[b])}
<1>1. PICK heir \in [homeless -> Bundle] :
        /\ \A c \in homeless : c \in Needs(recs[heir[c]])
        /\ after = [b \in Bundle |->
             [recs[b] EXCEPT !.contributed = @ \union {c \in homeless : heir[c] = b}]]
  BY DEF Transfer
<1> DEFINE gain(b) == {c \in homeless : heir[c] = b}
<1>2. ASSUME NEW b \in Bundle
      PROVE  /\ after[b] \in Record
             /\ after[b].needs = recs[b].needs /\ after[b].release = recs[b].release
             /\ after[b].contributed = recs[b].contributed \union gain(b)
  <2>1. gain(b) \subseteq Component
    OBVIOUS
  <2>2. after[b] = [recs[b] EXCEPT !.contributed = @ \union gain(b)]
    BY <1>1
  <2> HIDE DEF gain
  <2> QED BY <2>1, <2>2 DEF Record
<1>3. \A b \in Bundle :
        /\ after[b] \in Record
        /\ after[b].needs = recs[b].needs /\ after[b].release = recs[b].release
        /\ after[b].contributed = recs[b].contributed \union gain(b)
  BY <1>2
<1>4. after \in [Bundle -> Record]
  <2>1. \A b \in Bundle : after[b] \in Record
    BY <1>3
  <2> HIDE DEF homeless
  <2> QED BY <1>1, <2>1
<1>5. \A c \in homeless : c \in Tracked(after)
  BY <1>1, <1>3 DEF Tracked
<1>6. ASSUME NEW c \in released, NEW b \in Bundle, c \in Needs(recs[b])
      PROVE c \in Tracked(after)
  <2>1. CASE c \in Tracked(recs)
    BY <2>1, <1>3 DEF Tracked
  <2> QED BY <2>1, <1>5, <1>6
<1>7. ASSUME NEW b \in Bundle, NEW c \in after[b].contributed \ recs[b].contributed
      PROVE  c \in released \ Tracked(recs) /\ c \in Needs(recs[b])
  <2>1. c \in homeless /\ heir[c] = b
    BY <1>3
  <2> QED BY <2>1, <1>1
<1> QED BY <1>3, <1>4, <1>6, <1>7

-----------------------------------------------------------------------------
(* Initially *)

\* An empty project satisfies the invariant.
LEMMA InitIInv == Init => IInv
<1> SUFFICES ASSUME Init PROVE IInv
  OBVIOUS
<1> USE DEF Init
<1>1. NoRecord \in Record
  BY DEF NoRecord, Record, Pin
<1>2. TypeOK
  BY <1>1, BoundAssumption DEF TypeOK
<1>3. \A b \in Bundle : records[b] = NoRecord /\ Needs(NoRecord) = {}
                       /\ NoRecord.contributed = {} /\ NoRecord.release = "none"
  BY DEF NoRecord, Needs
<1>4. RecordsSound
  BY <1>3 DEF RecordsSound, RecordsLoad
<1>5. PinsAgree
  BY <1>3, NameAssumption DEF PinsAgree, NoRecord
<1>6. CommandSound /\ Fits
  BY IdleIsIdle DEF CommandSound, Fits, Applying
<1>7. IndependentSound /\ Accounted
  BY IdleIsIdle DEF IndependentSound, Accounted, Applying
<1> QED BY <1>2, <1>4, <1>5, <1>6, <1>7 DEF IInv

-----------------------------------------------------------------------------
(* Types *)

\* A command that is not idle is a complete record.
LEMMA Running ==
  ASSUME TypeOK, cmd.phase # "idle"
  PROVE  cmd # Idle /\ cmd \in CmdRecord
BY IdleIsIdle DEF TypeOK, CmdRecord

\* A needed component is only ever offered real versions.
LEMMA OfferedIsVersion ==
  ASSUME TypeOK, cmd.phase # "idle", NEW c \in Needs(cmd.plan)
  PROVE  Offered(c) \subseteq Version
<1>1. cmd.plan.needs[c] \in Pin /\ cmd.plan.needs[c] # "no"
  BY Running DEF CmdRecord, Plan, NoPlan, Needs, Pin
<1>2. c \in Component /\ packaged[c] \in Version \union {"none"}
  BY DEF Needs, TypeOK
<1> QED BY <1>1, <1>2 DEF Offered, Unenforced, Pin

\* Whatever is offered for a pin satisfies it.
LEMMA OfferedMeets ==
  ASSUME NEW c, NEW v \in Offered(c)
  PROVE  Meets(c, v, cmd.plan.needs[c])
BY DEF Offered, Unenforced, Meets

\* A fault within the bound stays within it.
LEMMA FaultCounts ==
  ASSUME TypeOK, faults < MaxFaults, faults' = faults + 1
  PROVE  faults' \in 0..MaxFaults
BY BoundAssumption DEF TypeOK

\* So does a command.
LEMMA CommandCounts ==
  ASSUME TypeOK, commands < MaxCommands, commands' = commands + 1
  PROVE  commands' \in 0..MaxCommands
BY BoundAssumption DEF TypeOK

\* A command goes on with a smaller or another set of components.
LEMMA ProceedsTyped ==
  ASSUME NEW phase \in {"apply", "stale", "save", "undo", "remove"},
         NEW todo \in SUBSET Component, cmd \in CmdRecord, Proceeds(phase, todo)
  PROVE  cmd' \in CmdRecord
BY DEF Proceeds, CmdRecord

\* Every step on one component keeps the types.
LEMMA ComponentStepTyped ==
  ASSUME IInv, NEW c \in Component, ComponentStep(c)
  PROVE  TypeOK'
<1>0. TypeOK /\ CommandSound
  BY DEF IInv
<1>r. ASSUME cmd.phase # "idle", cmd' \in CmdRecord,
             installed' \in [Component -> Version \union {"none"}],
             UNCHANGED <<packaged, records, commands>>, independent' \subseteq independent,
             lost' \subseteq lost \union Component,
             faults' \in 0..MaxFaults
      PROVE  TypeOK'
  BY <1>0, <1>r DEF TypeOK, CmdRecord
<1>c. cmd.phase # "idle" => cmd \in CmdRecord
  BY <1>0, Running
<1>f. faults \in 0..MaxFaults /\ commands \in 0..MaxCommands
  BY <1>0 DEF TypeOK
<1>o. cmd.phase = "apply" /\ c \in cmd.todo => Offered(c) \subseteq Version
  BY <1>0, OfferedIsVersion DEF CommandSound
<1>i. ASSUME NEW v \in Version \union {"none"},
             installed' = [installed EXCEPT ![c] = v]
      PROVE  installed' \in [Component -> Version \union {"none"}]
  BY <1>0, <1>i DEF TypeOK
<1>u. installed \in [Component -> Version \union {"none"}]
  BY <1>0 DEF TypeOK
<1>1. CASE ApplyNew(c)
  <2>1. cmd' \in CmdRecord
    BY <1>1, <1>c DEF ApplyNew, CmdRecord
  <2> QED BY <1>1, <1>r, <1>f, <1>o, <1>i, <2>1 DEF ApplyNew
<1>2. CASE ApplyPresent(c)
  <2>1. cmd' \in CmdRecord
    BY <1>2, <1>c DEF ApplyPresent, CmdRecord
  <2> QED BY <1>2, <1>r, <1>f, <1>o, <1>i, <1>u, <2>1 DEF ApplyPresent
<1>3. CASE ApplyFails(c)
  <2>1. cmd' \in CmdRecord
    BY <1>3, <1>c, ProceedsTyped DEF ApplyFails, CmdRecord
  <2>2. faults' \in 0..MaxFaults
    BY <1>0, <1>3, FaultCounts DEF ApplyFails
  <2>3. installed[c] \in Version \union {"none"}
    BY <1>u
  <2> QED BY <1>3, <1>r, <1>o, <1>i, <2>1, <2>2, <2>3 DEF ApplyFails
<1>R. CASE ApplyRefused(c)
  <2>1. cmd' \in CmdRecord
    BY <1>R, <1>c, ProceedsTyped DEF ApplyRefused, CmdRecord
  <2> QED BY <1>R, <1>r, <1>f, <1>u, <2>1 DEF ApplyRefused
<1>4. CASE DropStale(c)
  <2>1. cmd' \in CmdRecord
    BY <1>4, <1>c, ProceedsTyped DEF DropStale, CmdRecord
  <2> QED BY <1>4, <1>r, <1>f, <1>i, <2>1 DEF DropStale, Uninstall
<1>5. CASE DropFails(c)
  <2>1. cmd' \in CmdRecord
    BY <1>5, <1>c, ProceedsTyped DEF DropFails, CmdRecord
  <2>2. faults' \in 0..MaxFaults
    BY <1>0, <1>5, FaultCounts DEF DropFails
  <2> QED BY <1>5, <1>r, <1>u, <2>1, <2>2 DEF DropFails
<1>6. CASE Undo(c)
  <2>1. cmd' \in CmdRecord
    BY <1>6, <1>c, ProceedsTyped DEF Undo, CmdRecord
  <2>2. faults' \in 0..MaxFaults
    BY <1>0, <1>6, <1>f, FaultCounts DEF Undo
  <2> QED BY <1>6, <1>r, <1>i, <1>u, <2>1, <2>2 DEF Undo, Uninstall
<1>7. CASE RemoveOne(c)
  <2>1. cmd' \in CmdRecord
    BY <1>7, <1>c, ProceedsTyped DEF RemoveOne, CmdRecord
  <2> QED BY <1>7, <1>r, <1>f, <1>i, <2>1 DEF RemoveOne, Uninstall
<1>8. CASE UserRemoves(c)
  BY <1>0, <1>8, <1>i, CommandCounts DEF UserRemoves, Uninstall, TypeOK
<1>9. ASSUME NEW v \in Version, UserInstalls(c, v) \/ UserUpdates(c, v) PROVE TypeOK'
  <2>1. installed' \in [Component -> Version \union {"none"}]
    BY <1>9, <1>i DEF UserInstalls, UserUpdates
  <2> QED BY <1>0, <1>9, <2>1, CommandCounts DEF UserInstalls, UserUpdates, TypeOK
<1>U. ASSUME NEW v \in Packages[c], UserUpgrades(c, v) PROVE TypeOK'
  <2>1. v \in Version \union {"none"}
    BY VersionAssumption
  <2>2. packaged' \in [Component -> Version \union {"none"}]
    BY <1>0, <1>U, <2>1 DEF UserUpgrades, TypeOK
  <2> QED BY <1>0, <1>U, <2>2, CommandCounts DEF UserUpgrades, TypeOK
<1> QED BY <1>1, <1>2, <1>3, <1>R, <1>4, <1>5, <1>6, <1>7, <1>8, <1>9, <1>U DEF ComponentStep

\* Every step of a command as a whole keeps the types.
LEMMA CommandStepTyped ==
  ASSUME IInv,
         \/ Applied \/ Dropped \/ Undone \/ Save \/ SaveFails
         \/ RemoveFails \/ Removed \/ Killed
         \/ \E b \in Bundle :
              StartRemove(b) \/ \E plan \in Plans[b], r \in BOOLEAN : StartInstall(b, plan, r)
  PROVE  TypeOK'
<1>0. TypeOK /\ CommandSound
  BY DEF IInv
<1>c. cmd.phase # "idle" => cmd \in CmdRecord
  BY <1>0, Running
<1>1. CASE Applied
  <2>1. cmd' \in CmdRecord
    BY <1>0, <1>1, <1>c, ProceedsTyped DEF Applied, CmdRecord, TypeOK, Record
  <2> QED BY <1>0, <1>1, <2>1 DEF Applied, TypeOK, CmdRecord
<1>2. CASE Dropped
  <2>1. cmd' \in CmdRecord
    BY <1>2, <1>c, ProceedsTyped DEF Dropped, CmdRecord
  <2> QED BY <1>0, <1>2, <2>1 DEF Dropped, TypeOK, CmdRecord
<1>3. CASE Undone
  BY <1>0, <1>3 DEF Undone, TypeOK
<1>4. CASE Save
  <2>1. NewRecord \in Record
    BY <1>4, <1>c DEF Save, NewRecord, CmdRecord, Record, Plan, NoPlan, Pin
  <2> DEFINE updated == [records EXCEPT ![cmd.bundle] = NewRecord]
             released == IF cmd.refresh /\ Recorded(cmd.bundle)
                         THEN Ours \ Needs(cmd.plan) ELSE {}
  <2>2. updated \in [Bundle -> Record] /\ released \in SUBSET Component
    BY <1>0, <1>4, <1>c, <2>1 DEF Save, TypeOK, CmdRecord, Record, Ours
  <2>3. Transfer(updated, released, records')
    BY <1>4 DEF Save, Ours
  <2> HIDE DEF updated, released
  <2>4. records' \in [Bundle -> Record]
    BY <2>2, <2>3, TransferKeeps
  <2> QED BY <1>0, <1>4, <2>4 DEF Save, TypeOK
<1>5. CASE SaveFails
  BY <1>0, <1>5, <1>c, FaultCounts DEF SaveFails, TypeOK, CmdRecord
<1>6. CASE RemoveFails
  BY <1>0, <1>6, FaultCounts DEF RemoveFails, TypeOK
<1>7. CASE Removed
  <2>1. NoRecord \in Record
    BY DEF NoRecord, Record, Pin
  <2> DEFINE without == [records EXCEPT ![cmd.bundle] = NoRecord]
  <2>2. without \in [Bundle -> Record] /\ Ours \in SUBSET Component
    BY <1>0, <1>7, <1>c, <2>1 DEF Removed, TypeOK, CmdRecord, Record, Ours
  <2>4. Transfer(without, Ours, records')
    BY <1>7 DEF Removed, Ours
  <2> HIDE DEF without
  <2>3. records' \in [Bundle -> Record]
    BY <2>2, <2>4, TransferKeeps
  <2> QED BY <1>0, <1>7, <2>3 DEF Removed, TypeOK
<1>8. CASE Killed
  BY <1>0, <1>8, <1>c, IdleIsIdle, FaultCounts DEF Killed, TypeOK
<1>9. ASSUME NEW b \in Bundle, StartRemove(b) PROVE TypeOK'
  <2>1. cmd' \in CmdRecord
    BY <1>0, <1>9 DEF StartRemove, TypeOK, CmdRecord, Record, Idle
  <2> QED BY <1>0, <1>9, <2>1, CommandCounts DEF StartRemove, TypeOK, CmdRecord
<1>10. ASSUME NEW b \in Bundle, NEW plan \in Plans[b], NEW r \in BOOLEAN,
              StartInstall(b, plan, r)
       PROVE TypeOK'
  <2>1. cmd' \in CmdRecord
    BY <1>10, PlanAssumption DEF StartInstall, CmdRecord, Needs
  <2> QED BY <1>0, <1>10, <2>1, CommandCounts DEF StartInstall, TypeOK, CmdRecord
<1> QED BY <1>1, <1>2, <1>3, <1>4, <1>5, <1>6, <1>7, <1>8, <1>9, <1>10

-----------------------------------------------------------------------------
(* What the steps that write the records leave behind *)

\* What a saved installation or refresh leaves in the records.
LEMMA SaveShape ==
  ASSUME IInv, Save
  PROVE  /\ cmd \in CmdRecord /\ cmd' = Idle
         /\ \A b \in Bundle :
              IF b = cmd.bundle
              THEN /\ records'[b].needs = cmd.plan.needs
                   /\ records'[b].release = cmd.plan.release
                   /\ cmd.contributed \subseteq records'[b].contributed
                   /\ \A c \in records'[b].contributed \ cmd.contributed :
                        c \in Ours /\ c \in Needs(cmd.plan)
              ELSE /\ records'[b].needs = records[b].needs
                   /\ records'[b].release = records[b].release
                   /\ records[b].contributed \subseteq records'[b].contributed
                   /\ \A c \in records'[b].contributed \ records[b].contributed :
                        c \in Ours /\ c \in Needs(records[b])
         /\ cmd.refresh /\ Recorded(cmd.bundle) =>
              \A c \in (Ours \ Needs(cmd.plan)) \intersect StillNeeded(cmd.bundle) :
                c \in Tracked(records')
<1>1. cmd \in CmdRecord /\ cmd' = Idle /\ TypeOK
  BY Running, IdleIsIdle DEF Save, IInv
<1>2. NewRecord \in Record
  BY <1>1 DEF NewRecord, CmdRecord, Record, Plan, NoPlan, Pin
<1> DEFINE updated == [records EXCEPT ![cmd.bundle] = NewRecord]
           released == IF cmd.refresh /\ Recorded(cmd.bundle)
                       THEN Ours \ Needs(cmd.plan) ELSE {}
<1>3. updated \in [Bundle -> Record] /\ released \in SUBSET Component
  BY <1>1, <1>2 DEF TypeOK, CmdRecord, Record, Ours
<1>4. Transfer(updated, released, records')
  BY DEF Save, Ours
<1>5. \A b \in Bundle :
        /\ updated[b].needs = IF b = cmd.bundle THEN cmd.plan.needs ELSE records[b].needs
        /\ updated[b].release = IF b = cmd.bundle THEN cmd.plan.release
                                                ELSE records[b].release
        /\ updated[b].contributed = IF b = cmd.bundle THEN cmd.contributed
                                                    ELSE records[b].contributed
        /\ Needs(updated[b]) = IF b = cmd.bundle THEN Needs(cmd.plan)
                                               ELSE Needs(records[b])
  BY <1>1 DEF TypeOK, NewRecord, Needs
<1>6. released \subseteq Ours
  OBVIOUS
<1>7. cmd.refresh /\ Recorded(cmd.bundle) => released = Ours \ Needs(cmd.plan)
  OBVIOUS
<1> HIDE DEF updated, released
<1>8. /\ records' \in [Bundle -> Record]
      /\ \A b \in Bundle :
           /\ records'[b].needs = updated[b].needs /\ records'[b].release = updated[b].release
           /\ updated[b].contributed \subseteq records'[b].contributed
           /\ \A c \in records'[b].contributed \ updated[b].contributed :
                c \in released \ Tracked(updated) /\ c \in Needs(updated[b])
      /\ \A c \in released, b \in Bundle :
           c \in Needs(updated[b]) => c \in Tracked(records')
  BY <1>3, <1>4, TransferKeeps
<1>9. ASSUME cmd.refresh, Recorded(cmd.bundle),
             NEW c \in (Ours \ Needs(cmd.plan)) \intersect StillNeeded(cmd.bundle)
      PROVE  c \in Tracked(records')
  <2>1. PICK o \in Bundle \ {cmd.bundle} : c \in Needs(records[o])
    BY DEF StillNeeded, Others
  <2> QED BY <1>5, <1>7, <1>8, <1>9, <2>1
<1> QED BY <1>1, <1>5, <1>6, <1>8, <1>9

\* What a finished removal leaves in the records.
LEMMA RemovedShape ==
  ASSUME IInv, Removed
  PROVE  /\ cmd \in CmdRecord /\ cmd' = Idle
         /\ \A b \in Bundle :
              IF b = cmd.bundle
              THEN /\ records'[b].needs = NoRecord.needs
                   /\ records'[b].contributed = {}
              ELSE /\ records'[b].needs = records[b].needs
                   /\ records'[b].release = records[b].release
                   /\ records[b].contributed \subseteq records'[b].contributed
                   /\ \A c \in records'[b].contributed \ records[b].contributed :
                        c \in Ours /\ c \in Needs(records[b])
         /\ \A c \in Ours \intersect StillNeeded(cmd.bundle) : c \in Tracked(records')
<1>1. cmd \in CmdRecord /\ cmd' = Idle /\ TypeOK
  BY Running, IdleIsIdle DEF Removed, IInv
<1>2. NoRecord \in Record
  BY DEF NoRecord, Record, Pin
<1> DEFINE without == [records EXCEPT ![cmd.bundle] = NoRecord]
<1>3. without \in [Bundle -> Record] /\ Ours \in SUBSET Component
  BY <1>1, <1>2 DEF TypeOK, CmdRecord, Record, Ours
<1>4. Transfer(without, Ours, records')
  BY DEF Removed, Ours
<1>5. \A b \in Bundle :
        /\ without[b] = IF b = cmd.bundle THEN NoRecord ELSE records[b]
        /\ Needs(NoRecord) = {} /\ NoRecord.contributed = {}
  BY <1>1 DEF TypeOK, NoRecord, Needs
<1> HIDE DEF without
<1>8. /\ records' \in [Bundle -> Record]
      /\ \A b \in Bundle :
           /\ records'[b].needs = without[b].needs /\ records'[b].release = without[b].release
           /\ without[b].contributed \subseteq records'[b].contributed
           /\ \A c \in records'[b].contributed \ without[b].contributed :
                c \in Ours \ Tracked(without) /\ c \in Needs(without[b])
      /\ \A c \in Ours, b \in Bundle :
           c \in Needs(without[b]) => c \in Tracked(records')
  BY <1>3, <1>4, TransferKeeps
<1>9. ASSUME NEW c \in Ours \intersect StillNeeded(cmd.bundle)
      PROVE  c \in Tracked(records')
  <2>1. PICK o \in Bundle \ {cmd.bundle} : c \in Needs(records[o])
    BY DEF StillNeeded, Others
  <2> QED BY <1>5, <1>8, <1>9, <2>1
<1> QED BY <1>1, <1>5, <1>8, <1>9

-----------------------------------------------------------------------------
(* Records *)

\* Records stay sound and agree on pins: conflicts were ruled out when the
\* command started, and the other records stand until it saves.
LEMMA NextRecords ==
  ASSUME IInv, [Next]_vars
  PROVE  RecordsSound' /\ PinsAgree'
<1>1. CASE UNCHANGED records
  BY <1>1 DEF IInv, RecordsSound, RecordsLoad, PinsAgree, Recorded
<1>2. CASE Save
  <2>1. cmd.contributed \subseteq Needs(cmd.plan) /\ ~Clashes(cmd.bundle, cmd.plan)
    BY <1>2 DEF IInv, CommandSound, Applying, Save
  <2>2. cmd.plan.release = "none" => Needs(cmd.plan) = {}
    BY <1>2, SaveShape, NameAssumption DEF CmdRecord, Plan, NoPlan, Needs
  <2>3. RecordsLoad'
    BY <1>2, <2>1, SaveShape DEF IInv, RecordsSound, RecordsLoad, Needs
  <2>4. RecordsSound'
    BY <1>2, <2>2, <2>3, SaveShape DEF IInv, RecordsSound, Recorded, Needs
  <2>5. ASSUME NEW b \in Bundle, NEW o \in Bundle, NEW c \in Component,
               {records'[b].needs[c], records'[o].needs[c]} \subseteq Version
        PROVE  records'[b].needs[c] = records'[o].needs[c]
    <3>1. "no" \notin Version
      BY NameAssumption
    <3>2. ASSUME NEW q \in Bundle, q # cmd.bundle, cmd.plan.needs[c] \in Version,
                 records[q].needs[c] \in Version
          PROVE  cmd.plan.needs[c] = records[q].needs[c]
      BY <2>1, <3>1, <3>2 DEF Clashes, Others, Needs
    <3> QED BY <1>2, <2>5, <3>2, SaveShape DEF IInv, PinsAgree
  <2> QED BY <2>4, <2>5 DEF PinsAgree
<1>3. CASE Removed
  <2>1. \A c \in Component : NoRecord.needs[c] = "no"
    BY DEF NoRecord
  <2>2. RecordsSound'
    BY <1>3, <2>1, RemovedShape DEF IInv, RecordsSound, RecordsLoad, Recorded, Needs
  <2>3. PinsAgree'
    BY <1>3, <2>1, RemovedShape, NameAssumption DEF IInv, PinsAgree
  <2> QED BY <2>2, <2>3
<1> QED
  BY <1>1, <1>2, <1>3
     DEF Next, ComponentStep, vars, StartInstall, StartRemove, ApplyNew, ApplyPresent,
         ApplyRefused, ApplyFails, DropStale, DropFails, Undo, RemoveOne, UserRemoves,
         UserInstalls, UserUpdates, UserUpgrades, Applied, Dropped, Undone, SaveFails, RemoveFails, Killed

-----------------------------------------------------------------------------
(* The running command *)

\* While the records stand and a command keeps its bundle and plan, what these
\* say stays the same.
LEMMA Frame ==
  ASSUME UNCHANGED records, cmd'.bundle = cmd.bundle, cmd'.plan = cmd.plan,
         cmd'.refresh = cmd.refresh
  PROVE  /\ Ours' = Ours /\ Tracked(records)' = Tracked(records)
         /\ StillNeeded(cmd.bundle)' = StillNeeded(cmd.bundle)
         /\ Clashes(cmd.bundle, cmd.plan)' = Clashes(cmd.bundle, cmd.plan)
         /\ Needs(cmd.plan)' = Needs(cmd.plan)
         /\ Recorded(cmd.bundle)' = Recorded(cmd.bundle)
BY DEF Ours, Tracked, StillNeeded, Others, Clashes, Needs, Recorded

\* Nothing is asked of a command that is over.
LEMMA IdleSound ==
  ASSUME cmd' = Idle
  PROVE  /\ CommandSound' /\ Fits' /\ cmd'.done = {} /\ cmd'.contributed = {}
         /\ cmd'.phase = "idle"
BY IdleIsIdle DEF CommandSound, Fits, Applying

\* A step on one component leaves the command as it should be.
LEMMA ComponentStepCommand ==
  ASSUME IInv, NEW c \in Component, ComponentStep(c)
  PROVE  CommandSound'
<1>0. /\ CommandSound
      /\ cmd.phase # "idle" => cmd \in CmdRecord
  BY Running DEF IInv
<1>1. CASE ApplyNew(c)
  <2>1. /\ UNCHANGED records /\ cmd' \in CmdRecord /\ cmd.phase = "apply"
        /\ cmd' = [cmd EXCEPT !.todo = @ \ {c}, !.done = @ \union {c},
                             !.contributed = @ \union {c}]
    BY <1>0, <1>1 DEF ApplyNew, CmdRecord
  <2> QED BY <1>0, <1>1, <2>1, Frame DEF ApplyNew, CommandSound, Applying, CmdRecord
<1>2. CASE ApplyPresent(c)
  <2>1. /\ UNCHANGED records /\ cmd.phase = "apply"
        /\ cmd' = [cmd EXCEPT !.todo = @ \ {c},
                     !.contributed = IF Owned(c) THEN @ \union {c} ELSE @]
    BY <1>2 DEF ApplyPresent
  <2> QED BY <1>0, <1>2, <2>1, Frame DEF ApplyPresent, CommandSound, Applying, CmdRecord
<1>3. CASE ApplyFails(c) \/ ApplyRefused(c)
  BY <1>0, <1>3, Frame
     DEF ApplyFails, ApplyRefused, Proceeds, CommandSound, Applying, CmdRecord
<1>4. CASE DropStale(c)
  BY <1>0, <1>4, Frame DEF DropStale, Proceeds, CommandSound, Applying, CmdRecord
<1>5. CASE DropFails(c)
  BY <1>0, <1>5, Frame DEF DropFails, Proceeds, CommandSound, Applying, CmdRecord
<1>6. CASE Undo(c)
  BY <1>0, <1>6, Frame DEF Undo, Proceeds, CommandSound, Applying, CmdRecord
<1>7. CASE RemoveOne(c)
  BY <1>0, <1>7, Frame DEF RemoveOne, Proceeds, CommandSound, Applying, CmdRecord
<1>8. ASSUME \/ UserRemoves(c)
             \/ \E v \in Version : UserInstalls(c, v) \/ UserUpdates(c, v)
             \/ \E v \in Packages[c] : UserUpgrades(c, v)
      PROVE CommandSound'
  BY <1>8, IdleSound DEF UserRemoves, UserInstalls, UserUpdates, UserUpgrades
<1> QED BY <1>1, <1>2, <1>3, <1>4, <1>5, <1>6, <1>7, <1>8 DEF ComponentStep

\* So does a step of the command as a whole.
LEMMA CommandStepCommand ==
  ASSUME IInv,
         \/ Applied \/ Dropped \/ Undone \/ Save \/ SaveFails
         \/ RemoveFails \/ Removed \/ Killed
         \/ \E b \in Bundle :
              StartRemove(b) \/ \E plan \in Plans[b], r \in BOOLEAN : StartInstall(b, plan, r)
  PROVE  CommandSound'
<1>0. /\ CommandSound /\ TypeOK /\ RecordsSound
      /\ cmd.phase # "idle" => cmd \in CmdRecord
  BY Running DEF IInv
<1>1. CASE Applied
  <2>1. CASE cmd.refresh /\ Recorded(cmd.bundle)
    <3>1. /\ cmd'.phase = "stale" /\ cmd'.refresh = cmd.refresh
          /\ cmd'.bundle = cmd.bundle /\ cmd'.plan = cmd.plan
          /\ cmd'.done = cmd.done /\ cmd'.contributed = cmd.contributed
          /\ cmd'.todo = (Ours \ Needs(cmd.plan)) \ StillNeeded(cmd.bundle)
          /\ cmd.phase = "apply" /\ UNCHANGED records
      BY <1>0, <1>1, <2>1 DEF Applied, Proceeds, CmdRecord, Ours
    <3> QED BY <1>0, <2>1, <3>1, Frame DEF CommandSound, Applying
  <2>2. CASE ~(cmd.refresh /\ Recorded(cmd.bundle))
    BY <1>0, <1>1, <2>2, Frame DEF Applied, Proceeds, CommandSound, Applying, CmdRecord
  <2> QED BY <2>1, <2>2
<1>2. CASE Dropped
  BY <1>0, <1>2, Frame DEF Dropped, Proceeds, CommandSound, Applying, CmdRecord
<1>3. CASE Undone \/ Save \/ SaveFails \/ RemoveFails \/ Removed \/ Killed
  BY <1>3, IdleSound DEF Undone, Save, SaveFails, RemoveFails, Removed, Killed
<1>4. ASSUME NEW b \in Bundle, StartRemove(b) PROVE CommandSound'
  <2>1. /\ cmd'.phase = "remove" /\ cmd'.bundle = b /\ cmd'.done = {}
        /\ cmd'.todo = records[b].contributed \ StillNeeded(b) /\ UNCHANGED records
        /\ Needs(cmd'.plan) = {}
    BY <1>4 DEF StartRemove, Idle, NoPlan, Needs
  <2>2. Ours' = records[b].contributed /\ StillNeeded(cmd.bundle)' = StillNeeded(b)
    BY <2>1 DEF Ours, StillNeeded, Others, Needs
  <2>3. Needs(cmd.plan)' = {}
    BY <2>1 DEF Needs
  <2> QED BY <2>1, <2>2, <2>3 DEF CommandSound, Applying
<1>5. ASSUME NEW b \in Bundle, NEW plan \in Plans[b], NEW r \in BOOLEAN,
             StartInstall(b, plan, r)
      PROVE CommandSound'
  <2>1. /\ cmd'.phase = "apply" /\ cmd'.bundle = b /\ cmd'.done = {}
        /\ cmd'.plan = plan /\ cmd'.refresh = r /\ cmd'.contributed = {}
        /\ cmd'.todo = Needs(plan) /\ UNCHANGED records
    BY <1>5 DEF StartInstall
  <2>2. Ours' = records[b].contributed
    BY <2>1 DEF Ours
  <2>3. ~Clashes(cmd.bundle, cmd.plan)' /\ Needs(cmd.plan)' = Needs(plan)
    BY <1>5, <2>1 DEF Clashes, Others, Needs, StartInstall
  <2>4. ASSUME ~r, NEW c \in records[b].contributed PROVE c \in Needs(plan)
    <3>1. Recorded(b) /\ c \in Needs(records[b])
      BY <1>0, <2>4 DEF RecordsSound, RecordsLoad, Needs
    <3> QED BY <1>5, <2>4, <3>1 DEF StartInstall, OnlyGrows, Needs
  <2> QED BY <2>1, <2>2, <2>3, <2>4 DEF CommandSound, Applying
<1> QED BY <1>1, <1>2, <1>3, <1>4, <1>5

-----------------------------------------------------------------------------
(* The user's own components *)

\* No step makes a component of the user part of a record or a command.
LEMMA NextIndependent ==
  ASSUME IInv, Next
  PROVE  IndependentSound'
<1>0. /\ CommandSound /\ IndependentSound /\ TypeOK
      /\ cmd.phase # "idle" => cmd \in CmdRecord
  BY Running DEF IInv
<1>r. UNCHANGED records => Tracked(records)' = Tracked(records)
  BY DEF Tracked
<1>o. cmd.phase # "idle" => Ours \subseteq Tracked(records)
  BY <1>0 DEF Ours, Tracked, CmdRecord
<1> USE DEF IndependentSound
<1>1. ASSUME NEW c \in Component, ComponentStep(c) PROVE IndependentSound'
  <2>1. CASE ApplyNew(c)
    BY <1>0, <1>r, <2>1 DEF ApplyNew, TypeOK, CmdRecord
  <2>2. CASE ApplyPresent(c)
    <3>1. \A d \in Component \ {c} : installed'[d] = installed[d]
      BY <1>0, <2>2 DEF ApplyPresent, TypeOK
    <3>2. c \in independent => ~Owned(c) /\ installed'[c] = installed[c]
      BY <1>0, <2>2 DEF ApplyPresent, Owned
    <3> QED BY <1>0, <1>r, <2>2, <3>1, <3>2 DEF ApplyPresent, CmdRecord, TypeOK
  <2>3. CASE ApplyFails(c)
    <3>1. \A d \in Component \ {c} : installed'[d] = installed[d]
      BY <1>0, <2>3 DEF ApplyFails, TypeOK
    <3>2. c \notin independent
      BY <1>0, <2>3 DEF ApplyFails, Owned
    <3> QED BY <1>0, <1>r, <2>3, <3>1, <3>2 DEF ApplyFails, Proceeds, CmdRecord, TypeOK
  <2>R. CASE ApplyRefused(c)
    BY <1>0, <1>r, <2>R DEF ApplyRefused, Proceeds, CmdRecord
  <2>4. CASE DropStale(c)
    BY <1>0, <1>r, <2>4 DEF DropStale, Uninstall, Proceeds, CmdRecord, TypeOK
  <2>5. CASE DropFails(c)
    BY <1>0, <1>r, <2>5 DEF DropFails, Proceeds, CmdRecord
  <2>6. CASE Undo(c)
    BY <1>0, <1>r, <2>6 DEF Undo, Uninstall, Proceeds, CmdRecord, TypeOK
  <2>7. CASE RemoveOne(c)
    BY <1>0, <1>r, <2>7 DEF RemoveOne, Uninstall, Proceeds, CmdRecord, TypeOK
  <2>8. CASE UserRemoves(c)
    BY <1>0, <1>r, <2>8, IdleSound DEF UserRemoves, Uninstall, TypeOK
  <2>9. ASSUME NEW v \in Version, UserInstalls(c, v) \/ UserUpdates(c, v)
        PROVE IndependentSound'
    <3>1. "none" \notin Version /\ cmd' = cmd /\ cmd'.contributed = {}
      BY <2>9, NameAssumption, IdleIsIdle DEF UserInstalls, UserUpdates
    <3> QED BY <1>0, <1>r, <2>9, <3>1 DEF UserInstalls, UserUpdates, TypeOK
  <2>U. ASSUME NEW v \in Packages[c], UserUpgrades(c, v) PROVE IndependentSound'
    BY <1>0, <1>r, <2>U DEF UserUpgrades
  <2> QED BY <1>1, <2>1, <2>2, <2>3, <2>R, <2>4, <2>5, <2>6, <2>7, <2>8, <2>9, <2>U
          DEF ComponentStep
<1>2. CASE Applied \/ Dropped
  BY <1>0, <1>r, <1>2 DEF Applied, Dropped, Proceeds, CmdRecord
<1>3. CASE Undone \/ SaveFails \/ RemoveFails \/ Killed
  BY <1>0, <1>r, <1>3, IdleSound DEF Undone, SaveFails, RemoveFails, Killed
<1>4. CASE Save
  <2>1. \A c \in independent : c \notin Tracked(records')
    BY <1>0, <1>4, <1>o, SaveShape DEF Tracked, Save
  <2> QED BY <1>0, <1>4, <2>1, IdleSound DEF Save
<1>5. CASE Removed
  <2>1. \A c \in independent : c \notin Tracked(records')
    BY <1>0, <1>5, <1>o, RemovedShape DEF Tracked, Removed
  <2> QED BY <1>0, <1>5, <2>1, IdleSound DEF Removed
<1>6. ASSUME NEW b \in Bundle,
             StartRemove(b) \/ \E plan \in Plans[b], r \in BOOLEAN : StartInstall(b, plan, r)
      PROVE IndependentSound'
  <2>1. CASE StartRemove(b)
    BY <1>0, <1>r, <2>1 DEF StartRemove, Idle
  <2>2. ASSUME NEW plan \in Plans[b], NEW r \in BOOLEAN, StartInstall(b, plan, r)
        PROVE IndependentSound'
    BY <1>0, <1>r, <2>2 DEF StartInstall
  <2> QED BY <1>6, <2>1, <2>2
<1> QED BY <1>1, <1>2, <1>3, <1>4, <1>5, <1>6 DEF Next

-----------------------------------------------------------------------------
(* Who answers for an installed component *)

\* One component goes and nothing else of the command changes.
LEMMA Taken ==
  ASSUME IInv, NEW c \in Component, DropStale(c) \/ RemoveOne(c)
  PROVE  /\ cmd.phase \in {"stale", "remove"} /\ cmd'.phase = cmd.phase
         /\ cmd'.bundle = cmd.bundle /\ cmd'.plan = cmd.plan
         /\ cmd'.refresh = cmd.refresh /\ cmd'.done = cmd.done
         /\ cmd'.contributed = cmd.contributed /\ cmd'.todo = cmd.todo \ {c}
         /\ \A d \in Component \ {c} : installed'[d] = installed[d]
         /\ installed'[c] = "none" /\ UNCHANGED records
         /\ lost \subseteq lost' \union {c} /\ independent \subseteq independent' \union {c}
<1>1. cmd.phase \in {"stale", "remove"} /\ cmd \in CmdRecord /\ TypeOK
  BY Running DEF IInv, DropStale, RemoveOne
<1> QED BY <1>1 DEF DropStale, RemoveOne, Uninstall, Proceeds, CmdRecord, TypeOK

\* Every step leaves somebody to answer for each installed component.
LEMMA NextAccounted ==
  ASSUME IInv, Next
  PROVE  Accounted'
<1>0. /\ CommandSound /\ Accounted /\ TypeOK /\ RecordsSound /\ Fits
      /\ cmd.phase # "idle" => cmd \in CmdRecord
  BY Running DEF IInv
<1>r. UNCHANGED records => Tracked(records)' = Tracked(records)
  BY DEF Tracked
<1>o. cmd.phase # "idle" => Ours \subseteq Tracked(records)
  BY <1>0 DEF Ours, Tracked, CmdRecord
<1> USE DEF Accounted, Applying, Waiting
<1>1. ASSUME NEW c \in Component, ComponentStep(c) PROVE Accounted'
  <2>1. CASE ApplyNew(c)
    <3>1. /\ UNCHANGED <<records, independent, lost>> /\ cmd.phase = "apply"
          /\ cmd' = [cmd EXCEPT !.todo = @ \ {c}, !.done = @ \union {c},
                               !.contributed = @ \union {c}]
          /\ \A d \in Component \ {c} : installed'[d] = installed[d]
      BY <1>0, <2>1 DEF ApplyNew, TypeOK
    <3> QED BY <1>0, <1>r, <3>1, Frame DEF CmdRecord
  <2>2. CASE ApplyPresent(c)
    <3>1. /\ UNCHANGED <<records, independent, lost>> /\ cmd.phase = "apply"
          /\ cmd' = [cmd EXCEPT !.todo = @ \ {c},
                       !.contributed = IF Owned(c) THEN @ \union {c} ELSE @]
          /\ \A d \in Component \ {c} : installed'[d] = installed[d]
          /\ installed[c] # "none"
      BY <1>0, <2>2 DEF ApplyPresent, TypeOK
    <3>2. c \in Ours => Owned(c)
      BY <1>0, <1>o, <3>1 DEF Owned
    <3> QED BY <1>0, <1>r, <3>1, <3>2, Frame DEF CmdRecord
  <2>3. CASE ApplyFails(c)
    <3>1. /\ UNCHANGED <<records, independent>> /\ cmd.phase = "apply"
          /\ cmd' = [cmd EXCEPT !.phase = "undo", !.todo = cmd.done]
          /\ \A d \in Component \ {c} : installed'[d] = installed[d]
          /\ lost \subseteq lost'
          /\ installed[c] = "none" /\ installed'[c] # "none" => c \in lost'
      BY <1>0, <2>3 DEF ApplyFails, Proceeds, TypeOK
    <3> QED BY <1>0, <1>r, <3>1 DEF CmdRecord
  <2>R. CASE ApplyRefused(c)
    <3>1. /\ UNCHANGED <<installed, records, independent, lost>> /\ cmd.phase = "apply"
          /\ cmd' = [cmd EXCEPT !.phase = "undo", !.todo = cmd.done]
      BY <2>R DEF ApplyRefused, Proceeds
    <3> QED BY <1>0, <1>r, <3>1 DEF CmdRecord
  <2>4. CASE DropStale(c) \/ RemoveOne(c)
    <3>1. \A d \in Component : installed'[d] # "none" =>
            d \in Tracked(records) \union independent' \union lost' \union cmd.done
      BY <1>0, <2>4, Taken
    <3>2. Applying' =>
            Ours \intersect Needs(cmd.plan) \subseteq Waiting' \union cmd.contributed
      BY <1>0, <2>4, Taken
    <3>3. \A d \in Ours : \/ d \in Needs(cmd.plan) \/ installed'[d] = "none"
                         \/ d \in StillNeeded(cmd.bundle) \/ d \in cmd'.todo
      <4>1. Ours \subseteq Component
        BY <1>0, <2>4, Taken DEF Ours, TypeOK, CmdRecord, Record
      <4> QED BY <1>0, <2>4, Taken, <4>1
    <3> QED BY <1>0, <1>r, <2>4, <3>1, <3>2, <3>3, Taken, Frame
  <2>5. CASE DropFails(c)
    BY <1>0, <1>r, <2>5 DEF DropFails, Proceeds, CmdRecord
  <2>6. CASE Undo(c)
    <3>1. /\ UNCHANGED records /\ cmd.phase = "undo"
          /\ cmd' = [cmd EXCEPT !.phase = "undo", !.todo = cmd.todo \ {c}]
          /\ \A d \in Component \ {c} : installed'[d] = installed[d]
          /\ installed'[c] = "none" \/ c \in lost'
          /\ lost \subseteq lost' \union {c} /\ independent \subseteq independent' \union {c}
      BY <1>0, <2>6 DEF Undo, Uninstall, Proceeds, TypeOK
    <3> QED BY <1>0, <1>r, <3>1 DEF CmdRecord
  <2>7. CASE UserRemoves(c)
    <3>1. /\ cmd = Idle /\ cmd' = Idle /\ UNCHANGED records
          /\ \A d \in Component \ {c} : installed'[d] = installed[d]
          /\ installed'[c] = "none"
          /\ lost \subseteq lost' \union {c} /\ independent \subseteq independent' \union {c}
      BY <1>0, <2>7 DEF UserRemoves, Uninstall, TypeOK
    <3> QED BY <1>0, <1>r, <3>1, IdleIsIdle
  <2>8. ASSUME NEW v \in Version, UserInstalls(c, v) \/ UserUpdates(c, v)
        PROVE Accounted'
    <3>1. /\ cmd = Idle /\ cmd' = Idle /\ UNCHANGED <<records, lost>>
          /\ \A d \in Component \ {c} : installed'[d] = installed[d]
          /\ independent \subseteq independent'
          /\ installed[c] # "none" \/ c \in Tracked(records) \union independent'
      BY <1>0, <2>8 DEF UserInstalls, UserUpdates, TypeOK
    <3> QED BY <1>0, <1>r, <3>1, IdleIsIdle
  <2>U. ASSUME NEW v \in Packages[c], UserUpgrades(c, v) PROVE Accounted'
    BY <1>0, <1>r, <2>U, IdleIsIdle DEF UserUpgrades
  <2> QED BY <1>1, <2>1, <2>2, <2>3, <2>R, <2>4, <2>5, <2>6, <2>7, <2>8, <2>U
          DEF ComponentStep
<1>2. CASE Applied
  <2>1. /\ UNCHANGED <<installed, records, independent, lost>> /\ cmd.phase = "apply"
        /\ cmd.todo = {} /\ cmd \in CmdRecord
        /\ cmd'.bundle = cmd.bundle /\ cmd'.plan = cmd.plan /\ cmd'.refresh = cmd.refresh
        /\ cmd'.done = cmd.done /\ cmd'.contributed = cmd.contributed
    BY <1>0, <1>2 DEF Applied, Proceeds, CmdRecord
  <2>2. ~Recorded(cmd.bundle) => Ours = {}
    BY <1>0, <2>1 DEF RecordsSound, RecordsLoad, Ours, CmdRecord
  <2>3. Ours' = Ours /\ StillNeeded(cmd.bundle)' = StillNeeded(cmd.bundle)
        /\ Needs(cmd.plan)' = Needs(cmd.plan)
    BY <2>1, Frame
  <2>4. CASE cmd.refresh /\ Recorded(cmd.bundle)
    <3>1. cmd' = [cmd EXCEPT !.phase = "stale",
                    !.todo = (Ours \ Needs(cmd.plan)) \ StillNeeded(cmd.bundle)]
      BY <1>2, <2>4 DEF Applied, Proceeds, Ours
    <3>2. /\ cmd'.phase = "stale"
          /\ cmd'.todo = (Ours \ Needs(cmd.plan)) \ StillNeeded(cmd.bundle)
      BY <2>1, <3>1 DEF CmdRecord
    <3> QED BY <1>0, <1>r, <2>1, <2>3, <3>2
  <2>5. CASE ~(cmd.refresh /\ Recorded(cmd.bundle))
    <3>1. cmd'.phase = "save"
      BY <1>2, <2>1, <2>5 DEF Applied, Proceeds, CmdRecord
    <3> QED BY <1>0, <1>r, <2>1, <2>2, <2>3, <2>5, <3>1
  <2> QED BY <2>4, <2>5
<1>3. CASE Dropped
  BY <1>0, <1>r, <1>3, Frame DEF Dropped, Proceeds, CmdRecord
<1>4. CASE Undone \/ RemoveFails
  BY <1>0, <1>r, <1>4, IdleSound DEF Undone, RemoveFails, CommandSound, CmdRecord
<1>5. CASE SaveFails
  <2>1. /\ UNCHANGED <<installed, records, independent>> /\ cmd.phase = "save"
        /\ lost' = lost \union cmd.done
    BY <1>5 DEF SaveFails
  <2> QED BY <1>0, <1>r, <1>5, <2>1, IdleSound DEF SaveFails
<1>6. CASE Killed
  <2>1. cmd.phase # "idle"
    BY <1>0, <1>6, IdleIsIdle DEF Killed, TypeOK
  <2>2. /\ UNCHANGED <<installed, records, independent>> /\ cmd' = Idle
        /\ lost' = lost \union {c \in cmd.done : installed[c] # "none"}
    BY <1>6 DEF Killed
  <2>3. (IF cmd.phase = "undo" THEN cmd.todo ELSE cmd.done) \subseteq cmd.done
    BY <1>0 DEF CommandSound
  <2> QED BY <1>0, <1>r, <2>2, <2>3, IdleSound
<1>7. CASE Save
  <2>1. /\ UNCHANGED <<installed, independent, lost>> /\ cmd.phase = "save"
    BY <1>7 DEF Save
  <2>2. cmd.done \subseteq Tracked(records')
    BY <1>0, <1>7, SaveShape DEF CommandSound, Tracked, CmdRecord
  <2>3. ASSUME NEW c \in Tracked(records), installed[c] # "none"
        PROVE  c \in Tracked(records')
    <3>1. PICK b \in Bundle : c \in records[b].contributed
      BY <2>3 DEF Tracked
    <3>2. CASE b # cmd.bundle
      BY <1>7, <3>1, <3>2, SaveShape DEF Tracked
    <3>3. CASE b = cmd.bundle /\ c \in Needs(cmd.plan)
      BY <1>0, <1>7, <2>1, <3>1, <3>3, SaveShape DEF Tracked, Ours
    <3>4. CASE b = cmd.bundle /\ c \notin Needs(cmd.plan)
      <4>1. c \in Ours /\ Recorded(cmd.bundle)
        BY <1>0, <3>1, <3>4 DEF Ours, RecordsSound, RecordsLoad
      <4>2. cmd.refresh
        BY <1>0, <2>1, <3>4, <4>1 DEF CommandSound
      <4>3. c \in StillNeeded(cmd.bundle)
        BY <1>0, <2>1, <2>3, <3>4, <4>1, <4>2
      <4> QED BY <1>7, <3>4, <4>1, <4>2, <4>3, SaveShape
    <3> QED BY <3>2, <3>3, <3>4
  <2> QED BY <1>0, <1>7, <2>1, <2>2, <2>3, IdleSound DEF Save
<1>8. CASE Removed
  <2>1. /\ UNCHANGED <<installed, independent, lost>> /\ cmd.phase = "remove"
        /\ cmd.todo = {} /\ cmd.done = {}
    BY <1>0, <1>8 DEF Removed, CommandSound
  <2>2. ASSUME NEW c \in Tracked(records), c \in Component, installed[c] # "none"
        PROVE  c \in Tracked(records')
    <3>1. PICK b \in Bundle : c \in records[b].contributed
      BY <2>2 DEF Tracked
    <3>2. CASE b # cmd.bundle
      BY <1>8, <3>1, <3>2, RemovedShape DEF Tracked
    <3>3. CASE b = cmd.bundle
      <4>1. c \in Ours
        BY <3>1, <3>3 DEF Ours
      <4>2. c \notin Needs(cmd.plan)
        BY <1>0, <2>1 DEF CommandSound
      <4> QED BY <1>0, <1>8, <2>1, <2>2, <4>1, <4>2, RemovedShape
    <3> QED BY <3>2, <3>3
  <2> QED BY <1>0, <1>8, <2>1, <2>2, IdleSound DEF Removed
<1>9. ASSUME NEW b \in Bundle, StartRemove(b) PROVE Accounted'
  <2>1. /\ cmd'.phase = "remove" /\ cmd'.bundle = b /\ cmd'.done = {} /\ cmd.done = {}
        /\ cmd.phase = "idle"
        /\ cmd'.todo = records[b].contributed \ StillNeeded(b)
        /\ UNCHANGED <<installed, records, independent, lost>>
    BY <1>9, IdleIsIdle DEF StartRemove, Idle
  <2>2. Ours' = records[b].contributed /\ StillNeeded(cmd.bundle)' = StillNeeded(b)
    BY <2>1 DEF Ours, StillNeeded, Others, Needs
  <2> QED BY <1>0, <1>r, <2>1, <2>2
<1>10. ASSUME NEW b \in Bundle, NEW plan \in Plans[b], NEW r \in BOOLEAN,
              StartInstall(b, plan, r)
       PROVE Accounted'
  <2>1. /\ cmd'.phase = "apply" /\ cmd'.done = {} /\ cmd.done = {} /\ cmd.phase = "idle"
        /\ cmd'.plan = plan /\ cmd'.todo = Needs(plan)
        /\ UNCHANGED <<installed, records, independent, lost>>
    BY <1>10, IdleIsIdle DEF StartInstall
  <2>2. Needs(cmd.plan)' = Needs(plan)
    BY <2>1 DEF Needs
  <2> QED BY <1>0, <1>r, <2>1, <2>2
<1> QED BY <1>1, <1>2, <1>3, <1>4, <1>5, <1>6, <1>7, <1>8, <1>9, <1>10 DEF Next

-----------------------------------------------------------------------------
(* What waits still fits, what was applied suits everybody *)

\* A component that is left alone fits, and suits, as it did before.
LEMMA FitsFrame ==
  ASSUME UNCHANGED <<records, packaged>>, cmd'.bundle = cmd.bundle,
         cmd'.plan = cmd.plan, cmd'.refresh = cmd.refresh,
         NEW c, installed'[c] = installed[c]
  PROVE  /\ UnpinnedFits(cmd.bundle, cmd.refresh, c)' = UnpinnedFits(cmd.bundle, cmd.refresh, c)
         /\ PinnedFits(cmd.bundle, cmd.plan, cmd.refresh, c)'
              = PinnedFits(cmd.bundle, cmd.plan, cmd.refresh, c)
         /\ cmd.plan.needs[c]' = cmd.plan.needs[c]
         /\ Suits(c)' = Suits(c)
BY DEF UnpinnedFits, PinnedFits, TrackedByOthers, OtherPins, Others, Suits, Meets,
       Substitutes

\* Applying one component changes no other.
LEMMA AppliedShape ==
  ASSUME IInv, NEW c \in Component, ApplyNew(c) \/ ApplyPresent(c)
  PROVE  /\ cmd.phase = "apply" /\ cmd \in CmdRecord /\ cmd'.phase = "apply"
         /\ cmd'.bundle = cmd.bundle /\ cmd'.plan = cmd.plan /\ cmd'.refresh = cmd.refresh
         /\ cmd'.todo = cmd.todo \ {c} /\ UNCHANGED <<records, packaged>>
         /\ \A d \in Component \ {c} : installed'[d] = installed[d]
<1>1. cmd.phase = "apply" /\ cmd \in CmdRecord /\ TypeOK
  BY Running DEF IInv, ApplyNew, ApplyPresent
<1>2. CASE ApplyNew(c)
  BY <1>1, <1>2 DEF ApplyNew, CmdRecord, TypeOK
<1>3. CASE ApplyPresent(c)
  <2>1. /\ cmd' = [cmd EXCEPT !.todo = @ \ {c},
                     !.contributed = IF Owned(c) THEN @ \union {c} ELSE @]
        /\ UNCHANGED <<records, packaged>>
    BY <1>3 DEF ApplyPresent
  <2>2. \A d \in Component \ {c} : installed'[d] = installed[d]
    BY <1>1, <1>3 DEF ApplyPresent, TypeOK
  <2> QED BY <1>1, <2>1, <2>2 DEF CmdRecord
<1> QED BY <1>2, <1>3

\* What applying puts in place of what was there is one of the versions on offer;
\* what it leaves alone is there, and nobody refreshes it.
LEMMA AppliedOffered ==
  ASSUME IInv, NEW c \in Component, ApplyNew(c) \/ ApplyPresent(c)
  PROVE  \/ installed'[c] \in Offered(c) /\ (installed[c] = "none" \/ (cmd.refresh /\ Owned(c)))
         \/ /\ installed'[c] = installed[c] /\ installed[c] # "none"
            /\ ~(cmd.refresh /\ Owned(c))
<1>1. installed \in [Component -> Version \union {"none"}]
  BY DEF IInv, TypeOK
<1>2. CASE ApplyNew(c)
  BY <1>1, <1>2 DEF ApplyNew
<1>3. CASE ApplyPresent(c)
  BY <1>1, <1>3 DEF ApplyPresent
<1> QED BY <1>2, <1>3

\* A component that was applied suits its bundle and all the others: those that
\* pin it pin the same version, and an unpinned one is only taken as it is.
LEMMA AppliedSuits ==
  ASSUME IInv, NEW c \in Component, ApplyNew(c) \/ ApplyPresent(c)
  PROVE  Suits(c)'
<1>0. /\ CommandSound /\ TypeOK /\ Fits /\ c \in cmd.todo /\ cmd \in CmdRecord
      /\ cmd.phase = "apply"
  BY AppliedShape DEF IInv, ApplyNew, ApplyPresent
<1>1. c \in Needs(cmd.plan) /\ ~Clashes(cmd.bundle, cmd.plan)
  BY <1>0 DEF CommandSound, Applying
<1>2. Offered(c) \subseteq Version /\ "none" \notin Version /\ "any" \notin Version
  BY <1>0, <1>1, OfferedIsVersion, NameAssumption
<1>3. installed'[c] # "none"
  BY <1>2, AppliedOffered
<1>5. \A o \in Others(cmd.bundle) : records[o].needs[c] \in Pin /\ o \in Bundle
  BY <1>0 DEF TypeOK, Record, Others
<1>6. CASE cmd.plan.needs[c] = "any"
  <2>1. UnpinnedFits(cmd.bundle, cmd.refresh, c)
    BY <1>0, <1>6 DEF Fits
  <2>2. ASSUME NEW o \in Others(cmd.bundle), records[o].needs[c] \notin {"no", "any"}
        PROVE  installed'[c] = records[o].needs[c]
    <3>1. records[o].needs[c] \in OtherPins(cmd.bundle, c)
      BY <2>2 DEF OtherPins
    <3>2. /\ installed[c] = records[o].needs[c]
          /\ ~(cmd.refresh /\ c \in records[cmd.bundle].contributed)
      BY <2>1, <3>1 DEF UnpinnedFits
    <3>3. installed[c] # "none"
      BY <1>2, <1>5, <2>2, <3>2, NameAssumption DEF Pin
    <3>4. ~(cmd.refresh /\ Owned(c))
      BY <2>1, <3>2 DEF UnpinnedFits, Owned, Tracked, TrackedByOthers, Others
    <3> QED BY <3>2, <3>3, <3>4, AppliedOffered
  <2>3. \A o \in Others(cmd.bundle) : Meets(c, installed'[c], records[o].needs[c])
    BY <2>2 DEF Meets
  <2>4. Meets(c, installed'[c], cmd.plan.needs[c])
    BY <1>6 DEF Meets
  <2> QED BY <1>3, <2>3, <2>4, AppliedShape DEF Suits, Meets, Substitutes, Others
<1>7. CASE cmd.plan.needs[c] # "any"
  <2>1. Meets(c, installed'[c], cmd.plan.needs[c])
    <3>1. CASE installed'[c] \in Offered(c)
      BY <3>1, OfferedMeets
    <3>2. CASE /\ installed'[c] = installed[c] /\ installed[c] # "none"
               /\ ~(cmd.refresh /\ Owned(c))
      <4>1. PinnedFits(cmd.bundle, cmd.plan, cmd.refresh, c)
        BY <1>0, <1>7 DEF Fits
      <4>2. c \in records[cmd.bundle].contributed => Owned(c)
        BY <1>0 DEF Owned, Tracked, CmdRecord
      <4> QED BY <3>2, <4>1, <4>2 DEF PinnedFits, Meets
    <3> QED BY <3>1, <3>2, AppliedOffered
  <2>2. cmd.plan.needs[c] \in Version
    BY <1>0, <1>1, <1>7 DEF CmdRecord, Plan, NoPlan, Needs, Pin
  <2>3. \A o \in Others(cmd.bundle) : records[o].needs[c] \in {"no", cmd.plan.needs[c]}
    BY <1>1, <2>2 DEF Clashes
  <2>4. \A o \in Others(cmd.bundle) : Meets(c, installed'[c], records[o].needs[c])
    BY <2>1, <2>3 DEF Meets
  <2> QED BY <1>3, <2>1, <2>4, AppliedShape DEF Suits, Meets, Substitutes, Others
<1> QED BY <1>6, <1>7

\* Every step keeps what waits fitting and what was applied suitable.
LEMMA NextFits ==
  ASSUME IInv, Next
  PROVE  Fits'
<1>0. /\ CommandSound /\ TypeOK /\ Fits
      /\ cmd.phase # "idle" => cmd \in CmdRecord
  BY Running DEF IInv
<1>n. Needs(cmd.plan) \subseteq Component
  BY DEF Needs
<1>1. ASSUME NEW c \in Component, ApplyNew(c) \/ ApplyPresent(c) PROVE Fits'
  <2>1. c \in cmd.todo /\ cmd.todo \subseteq Component
    BY <1>0, <1>1 DEF ApplyNew, ApplyPresent, CmdRecord
  <2>2. ASSUME NEW d \in cmd'.todo
        PROVE  IF cmd'.plan.needs[d] = "any"
               THEN UnpinnedFits(cmd.bundle, cmd.refresh, d)'
               ELSE PinnedFits(cmd.bundle, cmd.plan, cmd.refresh, d)'
    <3>1. d \in cmd.todo /\ installed'[d] = installed[d]
      BY <1>1, <2>1, AppliedShape
    <3> QED BY <1>0, <1>1, <3>1, AppliedShape, FitsFrame DEF Fits
  <2>3. ASSUME NEW d \in Needs(cmd.plan)' \ Waiting'
        PROVE  Suits(d)'
    <3>1. d \in Needs(cmd.plan)
      BY <1>1, AppliedShape DEF Needs
    <3>2. CASE d = c
      BY <1>1, <3>2, AppliedSuits
    <3>3. CASE d # c
      <4>1. Suits(d)
        BY <1>0, <1>1, <3>1, <3>3, AppliedShape DEF Fits, Waiting, Applying
      <4> QED BY <1>1, <1>n, <3>1, <3>3, <4>1, AppliedShape, FitsFrame
    <3> QED BY <3>2, <3>3
  <2> QED BY <2>2, <2>3, <1>1, AppliedShape DEF Fits
<1>2. ASSUME NEW c \in Component, DropStale(c) PROVE Fits'
  <2>1. c \notin Needs(cmd.plan) /\ cmd.phase = "stale" /\ cmd'.phase = "stale"
    BY <1>0, <1>2, Taken DEF DropStale, CommandSound
  <2>2. Needs(cmd.plan)' = Needs(cmd.plan)
    BY <1>2, Taken DEF Needs
  <2>3. ASSUME NEW d \in Needs(cmd.plan), Suits(d) PROVE Suits(d)'
    BY <1>2, <1>n, <2>1, <2>3, Taken, FitsFrame DEF DropStale
  <2> QED BY <1>0, <2>1, <2>2, <2>3 DEF Fits, Waiting, Applying
<1>3. CASE Applied \/ Dropped
  <2>1. /\ cmd.phase \in {"apply", "stale"} /\ cmd'.phase \in {"stale", "save"}
        /\ cmd.todo = {} /\ cmd'.plan = cmd.plan /\ cmd'.bundle = cmd.bundle
        /\ cmd'.refresh = cmd.refresh /\ UNCHANGED <<installed, packaged, records>>
    BY <1>0, <1>3 DEF Applied, Dropped, Proceeds, CmdRecord
  <2>2. Needs(cmd.plan)' = Needs(cmd.plan) /\ \A d : Suits(d)' = Suits(d)
    BY <2>1, FitsFrame DEF Needs
  <2> QED BY <1>0, <2>1, <2>2 DEF Fits, Waiting, Applying
<1>4. ASSUME NEW b \in Bundle, NEW plan \in Plans[b], NEW r \in BOOLEAN,
             StartInstall(b, plan, r)
      PROVE Fits'
  <2>1. /\ cmd'.phase = "apply" /\ cmd'.bundle = b /\ cmd'.plan = plan
        /\ cmd'.refresh = r /\ cmd'.todo = Needs(plan)
        /\ UNCHANGED <<installed, packaged, records>> /\ PinsFit(b, plan, r)
    BY <1>4 DEF StartInstall
  <2>2. Needs(cmd.plan)' = Needs(plan)
    BY <2>1 DEF Needs
  <2>3. ASSUME NEW d \in Needs(plan)
        PROVE  IF plan.needs[d] = "any" THEN UnpinnedFits(cmd.bundle, cmd.refresh, d)'
                                        ELSE PinnedFits(cmd.bundle, cmd.plan, cmd.refresh, d)'
    <3>1. /\ UnpinnedFits(cmd.bundle, cmd.refresh, d)' = UnpinnedFits(b, r, d)
          /\ PinnedFits(cmd.bundle, cmd.plan, cmd.refresh, d)' = PinnedFits(b, plan, r, d)
      BY <2>1 DEF UnpinnedFits, PinnedFits, TrackedByOthers, OtherPins, Others,
                  Substitutes
    <3> QED BY <2>1, <3>1 DEF PinsFit
  <2> QED BY <2>1, <2>2, <2>3 DEF Fits, Waiting, Applying
<1>5. ASSUME NEW c \in Component,
             \/ ApplyRefused(c) \/ ApplyFails(c) \/ DropFails(c) \/ Undo(c) \/ RemoveOne(c)
      PROVE Fits'
  <2>1. cmd'.phase \in {"undo", "remove"}
    BY <1>0, <1>5 DEF ApplyRefused, ApplyFails, DropFails, Undo, RemoveOne, Proceeds, CmdRecord
  <2> QED BY <2>1 DEF Fits, Applying
<1>6. ASSUME NEW b \in Bundle, StartRemove(b) PROVE Fits'
  BY <1>6 DEF StartRemove, Idle, Fits, Applying
<1>7. CASE \/ Undone \/ Save \/ SaveFails \/ RemoveFails \/ Removed \/ Killed
           \/ \E c \in Component : \/ UserRemoves(c)
                                   \/ \E v \in Version : UserInstalls(c, v) \/ UserUpdates(c, v)
                                   \/ \E v \in Packages[c] : UserUpgrades(c, v)
  BY <1>7, IdleSound DEF Undone, Save, SaveFails, RemoveFails, Removed, Killed,
                         UserRemoves, UserInstalls, UserUpdates, UserUpgrades
<1> QED BY <1>1, <1>2, <1>3, <1>4, <1>5, <1>6, <1>7 DEF Next, ComponentStep

-----------------------------------------------------------------------------
(* The invariant holds *)

\* The invariant is inductive.
LEMMA NextIInv == IInv /\ [Next]_vars => IInv'
<1> SUFFICES ASSUME IInv, [Next]_vars PROVE IInv'
  OBVIOUS
<1>1. CASE Next
  <2>1. TypeOK' /\ CommandSound'
    BY <1>1, ComponentStepTyped, CommandStepTyped, ComponentStepCommand,
       CommandStepCommand DEF Next
  <2> QED BY <1>1, <2>1, NextRecords, NextIndependent, NextAccounted, NextFits DEF IInv
<1>2. CASE UNCHANGED vars
  <2>1. TypeOK'
    BY <1>2 DEF vars, IInv, TypeOK
  <2>2. RecordsSound' /\ PinsAgree'
    BY NextRecords
  <2>3. CommandSound'
    BY <1>2, Frame DEF vars, IInv, CommandSound, Applying
  <2>4. IndependentSound' /\ Accounted'
    BY <1>2, Frame DEF vars, IInv, IndependentSound, Accounted, Applying, Waiting
  <2>6. Fits'
    BY <1>2, Frame, FitsFrame DEF vars, IInv, Fits, Applying, Waiting
  <2> QED BY <2>1, <2>2, <2>3, <2>4, <2>6 DEF IInv
<1> QED BY <1>1, <1>2

\* The inductive invariant holds in every reachable state: sound records, what
\* the running command still owes, and an owner for every component.
THEOREM IInvHolds == Spec => []IInv
BY InitIInv, NextIInv, PTL DEF Spec

\* Every variable has its type, for any plans, bounds and failures.
THEOREM TypeCorrect == Spec => []TypeOK
<1>1. IInv => TypeOK
  BY DEF IInv
<1> QED BY <1>1, IInvHolds, PTL

\* load_records() accepts every file a command leaves: each bundle requires
\* what it contributed, also what another bundle handed over to it.
THEOREM SavedRecordsLoad == Spec => []RecordsLoad
<1>1. IInv => RecordsLoad
  BY DEF IInv, RecordsSound
<1> QED BY <1>1, IInvHolds, PTL

\* No two recorded bundles pin a component to different versions.
THEOREM RecordedPinsAgree == Spec => []PinsAgree
<1>1. IInv => PinsAgree
  BY DEF IInv
<1> QED BY <1>1, IInvHolds, PTL

\* Between commands, somebody answers for every component of the project.
THEOREM NothingIsOrphaned == Spec => []NoOrphans
<1>1. IInv => NoOrphans
  BY IdleIsIdle DEF IInv, Accounted, NoOrphans
<1> QED BY <1>1, IInvHolds, PTL

-----------------------------------------------------------------------------
(* What a step may do *)

\* Every step that neither starts nor is the user's: who changes what is installed.
LEMMA CommandChanges ==
  ASSUME IInv, [Next]_vars, cmd # Idle, NEW c \in Component, installed'[c] # installed[c]
  PROVE  ApplyNew(c) \/ ApplyPresent(c) \/ ApplyFails(c) \/ DropStale(c) \/ Undo(c)
         \/ RemoveOne(c)
<1>0. TypeOK
  BY DEF IInv
<1>1. PICK d \in Component :
        \/ ApplyNew(d) \/ ApplyPresent(d) \/ ApplyFails(d) \/ DropStale(d) \/ Undo(d)
        \/ RemoveOne(d)
  BY DEF Next, ComponentStep, vars, DropFails, UserRemoves, UserInstalls, UserUpdates,
         UserUpgrades, ApplyRefused, Applied, Dropped, Undone, Save, SaveFails, RemoveFails, Removed, Killed,
         StartRemove, StartInstall
<1>2. \A e \in Component \ {d} : installed'[e] = installed[e]
  BY <1>0, <1>1 DEF ApplyNew, ApplyPresent, ApplyFails, DropStale, Undo, RemoveOne,
                    Uninstall, TypeOK
<1> QED BY <1>1, <1>2

\* No bundle command, failing or not, changes or removes what the user installed
\* while no bundle tracked it.
THEOREM IndependentIsUntouched == Spec => IndependentUntouched
<1>1. ASSUME IInv, [Next]_vars, cmd # Idle, NEW c \in independent
      PROVE  installed'[c] = installed[c]
  <2>0. /\ TypeOK /\ CommandSound /\ IndependentSound /\ c \in Component
        /\ cmd.phase # "idle" => cmd \in CmdRecord
    BY <1>1, Running DEF IInv, TypeOK
  <2>1. installed[c] # "none" /\ ~Owned(c) /\ c \notin cmd.done
    BY <1>1, <2>0 DEF IndependentSound, Owned, CommandSound
  <2>2. cmd.phase # "idle" => c \notin Ours
    BY <2>0, <2>1 DEF Owned, Tracked, Ours, CmdRecord
  <2>3. ~ApplyNew(c) /\ ~ApplyFails(c) /\ ~Undo(c) /\ ~DropStale(c) /\ ~RemoveOne(c)
    BY <2>0, <2>1, <2>2
       DEF ApplyNew, ApplyFails, Undo, DropStale, RemoveOne, CommandSound
  <2>4. ApplyPresent(c) => UNCHANGED installed
    BY <2>1 DEF ApplyPresent
  <2> QED BY <1>1, <2>0, <2>3, <2>4, CommandChanges
<1>2. IInv /\ [Next]_vars =>
        [cmd # Idle => \A c \in independent : installed'[c] = installed[c]]_vars
  BY <1>1
<1> QED BY <1>2, IInvHolds, PTL DEF Spec, IndependentUntouched

\* A command on one bundle that meets no failure takes no component from another
\* bundle, and moves none to a version that other bundle does not accept.
THEOREM RequirementsAreKept == Spec => RequirementsKept
<1>1. ASSUME IInv, [Next]_vars, cmd # Idle, faults' = faults,
             NEW c \in Component \ cmd.done, NEW o \in Others(cmd.bundle),
             installed[c] # "none", installed'[c] # installed[c]
      PROVE  IF installed'[c] = "none" THEN records[o].needs[c] = "no"
             ELSE Meets(c, installed'[c], records[o].needs[c])
  <2>0. /\ TypeOK /\ CommandSound /\ Fits
        /\ cmd.phase # "idle" => cmd \in CmdRecord
    BY <1>1, Running DEF IInv
  <2>1. ~ApplyNew(c) /\ ~ApplyFails(c) /\ ~Undo(c)
    BY <1>1, <2>0 DEF ApplyNew, ApplyFails, Undo, CommandSound, TypeOK
  <2>2. CASE DropStale(c) \/ RemoveOne(c)
    <3>1. c \notin StillNeeded(cmd.bundle) /\ installed'[c] = "none"
      BY <1>1, <2>0, <2>2, Taken DEF CommandSound, DropStale, RemoveOne
    <3> QED BY <1>1, <3>1 DEF StillNeeded, Needs
  <2>3. CASE ApplyPresent(c)
    <3>1. Suits(c)' /\ UNCHANGED <<records, packaged>> /\ cmd'.bundle = cmd.bundle
      BY <1>1, <2>3, AppliedSuits, AppliedShape
    <3> QED BY <1>1, <3>1 DEF Suits, Meets, Substitutes, Others
  <2> QED BY <1>1, <2>1, <2>2, <2>3, CommandChanges
<1>2. IInv /\ [Next]_vars =>
        [cmd # Idle /\ faults' = faults =>
           \A c \in Component \ cmd.done, o \in Others(cmd.bundle) :
             installed[c] # "none" /\ installed'[c] # installed[c] =>
               IF installed'[c] = "none" THEN records[o].needs[c] = "no"
               ELSE Meets(c, installed'[c], records[o].needs[c])]_vars
  BY <1>1
<1> QED BY <1>2, IInvHolds, PTL DEF Spec, RequirementsKept

\* When the record of a bundle is written, all it requires is in the project, at
\* versions that it and every other bundle that requires them accept.
THEOREM RecordsTellTheTruth == Spec => RecordedMeansInstalled
<1>1. ASSUME IInv, cmd.phase = "save", NEW c \in Needs(cmd.plan)
      PROVE  Suits(c)
  BY <1>1 DEF IInv, Fits, Applying, Waiting
<1>2. IInv => [cmd.phase = "save" /\ cmd' = Idle /\ faults' = faults =>
                 \A c \in Needs(cmd.plan) :
                   /\ installed[c] # "none"
                   /\ Meets(c, installed[c], cmd.plan.needs[c])
                   /\ \A o \in Others(cmd.bundle) :
                        Meets(c, installed[c], records[o].needs[c])]_vars
  BY <1>1 DEF Suits
<1> QED BY <1>2, IInvHolds, PTL DEF Spec, RecordedMeansInstalled
=============================================================================
