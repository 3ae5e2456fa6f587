----------------------------- MODULE DerDefaults -----------------------------
(***************************************************************************)
(* The default-control overlay of a DER device (der.c update_defaults and  *)
(* insert_default).                                                        *)
(*                                                                         *)
(* Each update recomputes d->active, the modes asserted by the active      *)
(* event blocks. It then walks d->derpl in primacy order and gives every   *)
(* still-uncovered mode to the DefaultDERControl of the first program that *)
(* supplies it. One DefaultControl node is allocated per contributing      *)
(* program.                                                                *)
(*   - DEFAULT_START is queued with the new node as its subject, for a     *)
(*     control that was not in the previous overlay.                       *)
(*   - DEFAULT_END is queued for every node of the previous overlay whose  *)
(*     control dropped out.                                                *)
(*                                                                         *)
(* Nodes are identified by <<update number, program>>, which is unique per *)
(* allocation. `freed` records the nodes handed to free_list.              *)
(*                                                                         *)
(* list_subtract is in list.c, outside src/. It is modelled from its use:  *)
(* it returns the nodes of the old overlay whose control is not in the new *)
(* one. Whatever it does with the other old nodes is not represented.      *)
(*                                                                         *)
(* The program list and the modes of the active blocks are changed by      *)
(* schedule_der and by the block scheduler. Here they change freely        *)
(* between updates (ProgramsChange, BlocksChange).                         *)
(***************************************************************************)
EXTENDS Integers, Sequences, SequencesExt, FiniteSets

CONSTANTS
  Programs,      \* DERProgram stubs
  Modes,         \* DERControlBase mode flags (se_flags bits)
  PrimacyOrder,  \* the programs sorted by primacy (insert_stub order)
  DefaultOf,     \* the flags of each program's DefaultDERControl ({} = none)
  MaxUpdates     \* bound on the number of update_defaults calls

ASSUME /\ PrimacyOrder \in Seq(Programs) /\ ToSet(PrimacyOrder) = Programs
       /\ DefaultOf \in [Programs -> SUBSET Modes]
       /\ MaxUpdates \in Nat

VARIABLES
  derpl,        \* d->derpl: the device's programs in primacy order
  blockModes,   \* the union of eb->der over s->active (block scheduler)
  active,       \* d->active
  defaults,     \* d->defaults: Seq of [id, dderc, active]
  queue,        \* events queued by insert_event: Seq of [kind, node]
  freed,        \* DefaultControl nodes released by free_list
  updates,      \* number of update_defaults calls so far
  starts, ends  \* DEFAULT_START / DEFAULT_END queued per DefaultDERControl

dvars == <<derpl, blockModes, active, defaults, queue, freed,
           updates, starts, ends>>

NodeIds == (0 .. MaxUpdates) \X Programs
Node    == [id : NodeIds, dderc : Programs, active : SUBSET Modes]
Event   == [kind : {"DEFAULT_START", "DEFAULT_END"}, node : NodeIds]

\* The DefaultDERControls of an overlay list (find_by_data keys on dderc).
Ddercs(l) == {l[j].dderc : j \in DOMAIN l}

\* The programs a schedule_der can install: any subset, in primacy order.
ProgramLists == {SelectSeq(PrimacyOrder, LAMBDA p : p \in S) : S \in SUBSET Programs}

-----------------------------------------------------------------------------
(* The loop of update_defaults over d->derpl.                              *)
(* `mask` is ~d->active over 32 bits. The flags use fewer than 32 bits, so *)
(* the loop's `mask` test never ends it early, and the loop runs to the    *)
(* end of the list. m is built by prepending, as insert_default does.      *)
(* `old` is the previous overlay, `ev` the DEFAULT_STARTs queued so far.   *)

\* insert_default: a new node at the head of m.
InsertDefault(m, id, dderc, act) == <<[id |-> id, dderc |-> dderc, active |-> act]>> \o m

\* Variant of the loop that never removes the flags it gave away from mask.
RECURSIVE FillNoMask(_, _, _, _, _)
FillNoMask(l, mask, m, old, ev) ==
  IF l = <<>> THEN [m |-> m, ev |-> ev]
  ELSE LET p   == Head(l)
           act == DefaultOf[p] \cap mask
           ev2 == IF p \in Ddercs(old) THEN ev
                  ELSE Append(ev, [kind |-> "DEFAULT_START", node |-> <<updates, p>>])
       IN  IF act = {} THEN FillNoMask(Tail(l), mask, m, old, ev)
           ELSE FillNoMask(Tail(l), mask, InsertDefault(m, <<updates, p>>, p, act), old, ev2)

RECURSIVE Fill(_, _, _, _, _)
Fill(l, mask, m, old, ev) ==
  IF l = <<>> THEN [m |-> m, ev |-> ev]
  ELSE LET p    == Head(l)
           act  == DefaultOf[p] \cap mask
           m2   == InsertDefault(m, <<updates, p>>, p, act)
           ev2  == IF p \in Ddercs(old) THEN ev
                   ELSE Append(ev, [kind |-> "DEFAULT_START", node |-> <<updates, p>>])
       IN  IF act = {} THEN Fill(Tail(l), mask, m, old, ev)
           ELSE Fill(Tail(l), mask \ DefaultOf[p], m2, old, ev2)

\* Variant of list_subtract comparing the nodes rather than their data.
ListSubtractByNode(a, b) == SelectSeq(a, LAMBDA o : o.id \notin {b[j].id : j \in DOMAIN b})

\* list_subtract (d->defaults, m): the nodes whose control left the overlay.
ListSubtract(a, b) == SelectSeq(a, LAMBDA o : o.dderc \notin Ddercs(b))

\* update_defaults: the whole call, from d->active to d->defaults.
UpdateDefaults ==
  /\ updates < MaxUpdates
  /\ LET f   == Fill(derpl, Modes \ blockModes, <<>>, defaults, <<>>)
         n   == ListSubtract(defaults, f.m)
         ev  == f.ev \o [j \in DOMAIN n |-> [kind |-> "DEFAULT_END", node |-> n[j].id]]
     IN  /\ active'    = blockModes
         /\ defaults'  = Reverse(f.m)
         /\ queue'     = queue \o ev
         /\ freed'     = freed \cup {n[j].id : j \in DOMAIN n}
         /\ starts'    = [p \in Programs |->
                            starts[p] + Cardinality({j \in DOMAIN f.ev : f.ev[j].node[2] = p})]
         /\ ends'      = [p \in Programs |-> ends[p] + (IF p \in Ddercs(n) THEN 1 ELSE 0)]
         /\ updates'   = updates + 1
         /\ UNCHANGED <<derpl, blockModes>>

\* Variant of schedule_der whose insertion sort orders by descending primacy.
ProgramsChangeReversed(l) ==
  /\ derpl' = Reverse(l)
  /\ UNCHANGED <<blockModes, active, defaults, queue, freed, updates, starts, ends>>

\* schedule_der installs a new program list (device->derpl = derpl).
ProgramsChange(l) ==
  /\ derpl' = l
  /\ UNCHANGED <<blockModes, active, defaults, queue, freed, updates, starts, ends>>

\* The block scheduler starts or ends event blocks: s->active changes.
BlocksChange(ms) ==
  /\ blockModes' = ms
  /\ UNCHANGED <<derpl, active, defaults, queue, freed, updates, starts, ends>>

\* The event loop takes the oldest queued event.
Dispatch ==
  /\ queue # <<>>
  /\ queue' = Tail(queue)
  /\ UNCHANGED <<derpl, blockModes, active, defaults, freed, updates, starts, ends>>

DInit ==
  /\ derpl \in ProgramLists
  /\ blockModes \in SUBSET Modes
  /\ active = {}
  /\ defaults = <<>>
  /\ queue = <<>>
  /\ freed = {}
  /\ updates = 0
  /\ starts = [p \in Programs |-> 0]
  /\ ends = [p \in Programs |-> 0]

DNext ==
  \/ UpdateDefaults
  \/ \E l \in ProgramLists : ProgramsChange(l)
  \/ \E ms \in SUBSET Modes : BlocksChange(ms)
  \/ Dispatch

DSpec == DInit /\ [][DNext]_dvars

-----------------------------------------------------------------------------
(* Properties                                                              *)

\* Every variable has its type. In particular d->derpl is always a set of
\* programs in primacy order, as schedule_der's insertion sort builds it.
DTypeOK ==
  /\ derpl \in ProgramLists
  /\ blockModes \subseteq Modes /\ active \subseteq Modes
  /\ defaults \in Seq(Node)
  /\ queue \in Seq(Event)
  /\ freed \subseteq NodeIds
  /\ updates \in 0 .. MaxUpdates
  /\ starts \in [Programs -> Nat] /\ ends \in [Programs -> Nat]

\* The reference overlay: each mode not asserted by an active block goes to
\* the first program in primacy order whose DefaultDERControl supplies it.
\* The result lists, in primacy order, every program that gets a mode,
\* with the modes it gets.
Supplies(l, covered, i) ==
  {x \in DefaultOf[l[i]] \ covered :
     \A j \in 1 .. i - 1 : x \notin DefaultOf[l[j]]}
ReferenceOverlay(l, covered) ==
  LET ix == SelectSeq([i \in DOMAIN l |-> i], LAMBDA i : Supplies(l, covered, i) # {})
  IN  [j \in DOMAIN ix |-> <<l[ix[j]], Supplies(l, covered, ix[j])>>]

\* Spec 4.8 and property 5. Every update_defaults leaves d->defaults equal to
\* the reference overlay for the current program list and active blocks.
\* So the defaults never supply a mode an active block asserts, and no
\* two defaults supply the same mode. The list is in primacy order, which
\* is what list_reverse of the prepended list gives.
OverlayFollowsPrimacy ==
  [][UpdateDefaults =>
       [j \in DOMAIN defaults' |-> <<defaults'[j].dderc, defaults'[j].active>>]
         = ReferenceOverlay(derpl, blockModes)]_dvars

\* Spec 4.8: a DefaultDERControl gets DEFAULT_START when it enters the
\* overlay and DEFAULT_END when it leaves. Over any sequence of
\* update_defaults calls, each control's STARTs outnumber its ENDs by
\* exactly one while it is in d->defaults, and equal them otherwise. This
\* depends on the find_by_data test against the previous overlay, and on
\* list_subtract matching by dderc, across updates whose active blocks and
\* program lists differ.
DefaultEventsBalanced ==
  \A p \in Programs :
    starts[p] - ends[p] = IF p \in Ddercs(defaults) THEN 1 ELSE 0

\* Every queued DEFAULT_START / DEFAULT_END refers to a DefaultControl node
\* that is still allocated when the event loop reaches it.
NoDanglingEvent == \A j \in DOMAIN queue : queue[j].node \notin freed

====
