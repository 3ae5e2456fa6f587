----------------------------- MODULE DerSchedule -----------------------------
(***************************************************************************)
(* The DER scheduler of a device (der.c schedule_der and remove_programs). *)
(*                                                                         *)
(* The server's view of the EndDevice is the FunctionSetAssignmentsList    *)
(* (present or not) and the DERPrograms its DERProgramLists name. It       *)
(* changes between hydrations (TreeChange). Each hydration is followed by  *)
(* one schedule_der, which                                                 *)
(*   - collects the listed programs in primacy order,                      *)
(*   - removes the blocks of the programs that left d->derpl. It answers   *)
(*     EventAbortedProgram for the ones that were Active and marks all of  *)
(*     them Aborted;                                                       *)
(*   - clears s->scheduled and s->active;                                  *)
(*   - schedules a block per DERControl of every program, keeping the      *)
(*     block a control already has in s->blocks;                           *)
(*   - queues SCHEDULE_UPDATE and DEVICE_SCHEDULE.                         *)
(*                                                                         *)
(* The block state machine (spec 4.7) lives in schedule code outside src/: *)
(* SCHEDULE_UPDATE rebuilds the lists from s->blocks, and a block moves    *)
(* Scheduled -> Active -> Complete, or to Cancelled on a server command.   *)
(* Superseded blocks are not modelled.                                     *)
(***************************************************************************)
EXTENDS Integers, Sequences, SequencesExt, FiniteSets

CONSTANTS
  Programs,      \* DERProgram stubs
  Controls,      \* DERControl resources
  PrimacyOrder,  \* the programs sorted by primacy (insert_stub order)
  ControlsOf,    \* the DERControlList of each program
  MaxChanges     \* bound on the server's changes to the EndDevice tree

ASSUME /\ PrimacyOrder \in Seq(Programs) /\ ToSet(PrimacyOrder) = Programs
       /\ ControlsOf \in [Programs -> SUBSET Controls]
       /\ \A p, q \in Programs : p # q => ControlsOf[p] \cap ControlsOf[q] = {}
       /\ MaxChanges \in Nat

VARIABLES
  fsal,       \* get_subordinate (edev, SE_FunctionSetAssignmentsList) # NULL
  listed,     \* the programs of the hydrated DERProgramLists
  hydrated,   \* the EndDevice was hydrated and schedule_der has not run yet
  changes,    \* number of server changes so far
  derpl,      \* device->derpl
  blocks,     \* the controls with a block in s->blocks
  status,     \* eb->status of each control's latest block ("none": never had one)
  scheduled,  \* s->scheduled
  active,     \* s->active
  queue,      \* events queued by insert_event
  responses,  \* device_response (..., EventAbortedProgram), in order
  starts,     \* EVENT_START per control
  ends        \* EVENT_END per control

svars == <<fsal, listed, hydrated, changes, derpl, blocks, status, scheduled,
           active, queue, responses, starts, ends>>

BlockStatus == {"Scheduled", "Active", "Cancelled", "Aborted", "Complete"}

\* The program whose DERControlList holds c (eb->program).
Owner(c) == CHOOSE p \in Programs : c \in ControlsOf[p]

\* The controls of the programs of a list.
ControlsOfList(l) == UNION {ControlsOf[l[i]] : i \in DOMAIN l}

-----------------------------------------------------------------------------
(* schedule_der and remove_programs                                        *)

\* The loops over fsa->reqs and each DERProgramList: insert_stub keeps the
\* list sorted by primacy, so the result is the listed programs in order.
CollectPrograms(l) == SelectSeq(PrimacyOrder, LAMBDA p : p \in l)

\* list_subtract (device->derpl, derpl): the programs of a not in b.
ListSubtract(a, b) == SelectSeq(a, LAMBDA p : ~(p \in ToSet(b)))

\* Variant of remove_programs that marks a block Aborted before it tests
\* whether it was Active.
RemoveProgramsAbortFirst(removed) ==
  LET gone == {c \in blocks : Owner(c) \in ToSet(removed)}
  IN  [blocks |-> blocks \ gone,
       status |-> [c \in Controls |-> IF c \in gone THEN "Aborted" ELSE status[c]],
       responses |-> responses]

\* Variant of remove_programs whose walk of s->blocks ends after the
\* first remove_block, as a cursor invalidated by the removal would.
RemoveProgramsFirstOnly(removed) ==
  LET all  == {c \in blocks : Owner(c) \in ToSet(removed)}
      gone == IF all = {} THEN {} ELSE {CHOOSE c \in all : TRUE}
  IN  [blocks |-> blocks \ gone,
       status |-> [c \in Controls |-> IF c \in gone THEN "Aborted" ELSE status[c]],
       responses |-> responses \o SetToSeq({c \in gone : status[c] = "Active"})]

\* remove_programs: every block of a removed program is taken out of
\* s->blocks (remove_block); an Active one gets an EventAbortedProgram
\* response, and each is marked Aborted. Nothing when the list is empty.
\* The blocks are visited in hash order; the responses are ordered here by
\* primacy and control, which the properties do not tell apart.
RemovePrograms(removed) ==
  LET gone == {c \in blocks : Owner(c) \in ToSet(removed)}
      resp == {c \in gone : status[c] = "Active"}
  IN  [blocks |-> blocks \ gone,
       status |-> [c \in Controls |-> IF c \in gone THEN "Aborted" ELSE status[c]],
       responses |-> responses \o SetToSeq(resp)]

\* Variant of schedule_event that leaves a new block's status unset.
ScheduleEventNoInit(r, cs) ==
  [blocks |-> r.blocks \cup cs, status |-> r.status]

\* schedule_event for each control of the retained programs: a control
\* keeps the block it has in s->blocks; a new block starts Scheduled.
ScheduleEvent(r, cs) ==
  [blocks |-> r.blocks \cup cs,
   status |-> [c \in Controls |->
                 IF c \in cs \ r.blocks THEN "Scheduled" ELSE r.status[c]]]

\* schedule->scheduled = schedule->active = schedule->superseded = NULL.
ClearLists == scheduled' = {} /\ active' = {}

\* Variant of schedule_der that queues DEVICE_SCHEDULE only (the
\* SCHEDULE_UPDATE left to the commented-out update_schedule call).
QueueEventsDeviceOnly == queue' = queue \o <<"DEVICE_SCHEDULE">>

\* insert_event (schedule, SCHEDULE_UPDATE, 0); insert_event (device,
\* DEVICE_SCHEDULE, 0).
QueueEvents == queue' = queue \o <<"SCHEDULE_UPDATE", "DEVICE_SCHEDULE">>

\* schedule_der: the whole call. Without a FunctionSetAssignmentsList it
\* returns before touching the schedule. The lFDI copy is data only.
ScheduleDer ==
  /\ hydrated
  /\ hydrated' = FALSE
  /\ IF ~fsal THEN UNCHANGED <<derpl, blocks, status, scheduled, active, queue, responses>>
     ELSE LET new == CollectPrograms(listed)
              r   == RemovePrograms(ListSubtract(derpl, new))
              e   == ScheduleEvent(r, ControlsOfList(new))
          IN  /\ derpl' = new
              /\ blocks' = e.blocks /\ status' = e.status
              /\ responses' = r.responses
              /\ ClearLists
              /\ QueueEvents
  /\ UNCHANGED <<fsal, listed, changes, starts, ends>>

-----------------------------------------------------------------------------
(* The environment: the server and the block scheduler (outside src/).    *)

\* The server changes the EndDevice tree; the client hydrates it again.
TreeChange(f, l) ==
  /\ changes < MaxChanges
  /\ fsal' = f /\ listed' = l /\ hydrated' = TRUE /\ changes' = changes + 1
  /\ UNCHANGED <<derpl, blocks, status, scheduled, active, queue, responses, starts, ends>>

\* SCHEDULE_UPDATE: the lists are rebuilt from the blocks in s->blocks.
UpdateSchedule ==
  /\ scheduled' = {c \in blocks : status[c] = "Scheduled"}
  /\ active' = {c \in blocks : status[c] = "Active"}

\* The event loop takes the oldest queued event.
Dispatch ==
  /\ queue # <<>>
  /\ queue' = Tail(queue)
  /\ IF Head(queue) = "SCHEDULE_UPDATE" THEN UpdateSchedule
     ELSE UNCHANGED <<scheduled, active>>
  /\ UNCHANGED <<fsal, listed, hydrated, changes, derpl, blocks, status, responses, starts, ends>>

\* A scheduled block reaches its start time: EVENT_START.
StartBlock(c) ==
  /\ c \in scheduled /\ status[c] = "Scheduled"
  /\ status' = [status EXCEPT ![c] = "Active"]
  /\ scheduled' = scheduled \ {c} /\ active' = active \cup {c}
  /\ starts' = [starts EXCEPT ![c] = @ + 1]
  /\ UNCHANGED <<fsal, listed, hydrated, changes, derpl, blocks, queue, responses, ends>>

\* An active block reaches its end time: EVENT_END.
EndBlock(c) ==
  /\ c \in active /\ status[c] = "Active"
  /\ status' = [status EXCEPT ![c] = "Complete"]
  /\ active' = active \ {c}
  /\ ends' = [ends EXCEPT ![c] = @ + 1]
  /\ UNCHANGED <<fsal, listed, hydrated, changes, derpl, blocks, scheduled, queue, responses, starts>>

\* The server cancels a control: EVENT_END if the block was Active.
CancelBlock(c) ==
  /\ c \in blocks /\ status[c] \in {"Scheduled", "Active"}
  /\ status' = [status EXCEPT ![c] = "Cancelled"]
  /\ scheduled' = scheduled \ {c} /\ active' = active \ {c}
  /\ ends' = [ends EXCEPT ![c] = @ + (IF status[c] = "Active" THEN 1 ELSE 0)]
  /\ UNCHANGED <<fsal, listed, hydrated, changes, derpl, blocks, queue, responses, starts>>

SInit ==
  /\ fsal \in BOOLEAN /\ listed \in SUBSET Programs
  /\ hydrated = TRUE /\ changes = 0
  /\ derpl = <<>> /\ blocks = {} /\ status = [c \in Controls |-> "none"]
  /\ scheduled = {} /\ active = {}
  /\ queue = <<>> /\ responses = <<>>
  /\ starts = [c \in Controls |-> 0] /\ ends = [c \in Controls |-> 0]

SNext ==
  \/ ScheduleDer
  \/ \E f \in BOOLEAN, l \in SUBSET Programs : TreeChange(f, l)
  \/ Dispatch
  \/ \E c \in Controls : StartBlock(c) \/ EndBlock(c) \/ CancelBlock(c)

\* The client runs schedule_der after every hydration, and the single event
\* loop drains its queue (spec 5): both are weakly fair. Block transitions
\* and the server are not.
SSpec == SInit /\ [][SNext]_svars /\ WF_svars(ScheduleDer) /\ WF_svars(Dispatch)

-----------------------------------------------------------------------------
(* Properties                                                              *)

\* Every variable has its type; every block in s->blocks has a status.
STypeOK ==
  /\ fsal \in BOOLEAN /\ listed \subseteq Programs /\ hydrated \in BOOLEAN
  /\ changes \in 0 .. MaxChanges
  /\ derpl \in Seq(Programs)
  /\ blocks \subseteq Controls
  /\ status \in [Controls -> BlockStatus \cup {"none"}]
  /\ \A c \in blocks : status[c] \in BlockStatus
  /\ scheduled \subseteq Controls /\ active \subseteq Controls
  /\ queue \in Seq({"SCHEDULE_UPDATE", "DEVICE_SCHEDULE"})
  /\ responses \in Seq(Controls)
  /\ starts \in [Controls -> Nat] /\ ends \in [Controls -> Nat]

\* The EventAbortedProgram responses sent for c.
Aborts(c) == Len(SelectSeq(responses, LAMBDA x : x = c))

\* Spec 4.7 and 7 (ProgramAborted): every time a block leaves Active the
\* server hears of it exactly once, by EVENT_END when it completes or is
\* cancelled, or by an EventAbortedProgram response when schedule_der
\* withdraws its program. So for each control, the EVENT_STARTs equal the
\* EVENT_ENDs plus the aborts, plus one while its block is Active. It
\* depends on remove_programs testing eb->status before it writes Aborted,
\* across programs that are withdrawn and listed again.
ActivationsAccounted ==
  \A c \in Controls :
    starts[c] = ends[c] + Aborts(c) + (IF status[c] = "Active" THEN 1 ELSE 0)

\* A block that has a status of one of the lists but is not on that list:
\* the scheduler cannot start it (StartBlock needs it on s->scheduled) or
\* end it (EndBlock needs it on s->active).
Stale(c) ==
  \/ status[c] = "Scheduled" /\ c \notin scheduled
  \/ status[c] = "Active" /\ c \notin active

\* schedule_der empties s->scheduled and s->active (der.c 228) and leaves
\* their rebuilding to the SCHEDULE_UPDATE it queues (der.c 240). Every
\* block left off its list that way is eventually back on it, or has left
\* that status: the stale window after a schedule_der always closes,
\* across later schedule_der calls that clear the lists again.
ClearedListsRebuilt == \A c \in Controls : Stale(c) ~> ~Stale(c)

\* A block that is Active although the server no longer lists its program,
\* while the EndDevice still has a FunctionSetAssignmentsList.
Orphan(c) == status[c] = "Active" /\ Owner(c) \notin listed /\ fsal

\* Spec 4.7 step 3: once the server withdraws a program, the next
\* schedule_der aborts its active blocks: no block stays an orphan forever.
\* The FunctionSetAssignmentsList is required to be present, because
\* schedule_der returns early without it (OrphansAbortedWithoutFsal).
OrphansAborted == \A c \in Controls : []<>~Orphan(c)

\* The same without the FunctionSetAssignmentsList: no block of a program
\* the server no longer lists stays Active forever (der_orphan.cfg).
OrphansAbortedWithoutFsal ==
  \A c \in Controls : []<>~(status[c] = "Active" /\ Owner(c) \notin listed)

====
