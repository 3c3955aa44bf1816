----------------------------- MODULE ChatHistory -----------------------------
(***************************************************************************)
(* The conversation history of one session (LLM/chat.py).  The event loop  *)
(* (client items, transcripts) and the LLM thread append to it, the LLM    *)
(* thread trims it after each generation, and a background worker replaces *)
(* old turns by a summary.  Every public method holds _lock for its whole  *)
(* body, hence one action each; the worker takes the lock twice and does   *)
(* its LLM call, and two of its checks, without it.                        *)
(***************************************************************************)
EXTENDS Naturals, Sequences, FiniteSets, SequencesExt

CONSTANTS Size,         \* user turns to keep (Chat.size)
          Calls,        \* call identifiers
          MaxItems,     \* bound: items added in a behaviour
          MaxResets     \* bound: calls of reset()

ASSUME SizeAssumption   == Size \in Nat \ {0}
ASSUME BoundsAssumption == MaxItems \in Nat /\ MaxResets \in Nat

VARIABLES buffer,       \* the items, oldest first
          pending,      \* _pending_tool_calls: calls with no output yet
          userTurns,    \* _user_turn_count
          gen,          \* _gen_counter
          inFlight,     \* _compact_in_flight
          closing,      \* close(): "open", then _shutdown set, then gen advanced
          workers,      \* compaction threads
          compactor,    \* does the LLM handler pass a compactor?
          nextId,       \* the next identifier of _generate_id
          resets,       \* history: calls of reset() so far
          repeated      \* history: a call was answered twice

vars == <<buffer, pending, userTurns, gen, inFlight, closing, workers, compactor,
          nextId, resets, repeated>>

NoCall == "none"
ASSUME NoCallAssumption == NoCall \notin Calls

Item(kind, call) == [kind |-> kind, id |-> nextId, call |-> call, epoch |-> resets]

IsUser(i) == i.kind = "user"
UserCount(b) == Cardinality({n \in DOMAIN b : IsUser(b[n])})
Shutdown == closing # "open"

Init ==
  /\ buffer = << >> /\ pending = {} /\ userTurns = 0
  /\ gen = 0 /\ inFlight = FALSE /\ closing = "open"
  /\ workers = {}
  /\ compactor \in BOOLEAN
  /\ nextId = 1 /\ resets = 0 /\ repeated = FALSE

-----------------------------------------------------------------------------
(* Eviction, on a history h: its items and the turns the code counts in it. *)

Now == [items |-> buffer, turns |-> userTurns]

\* Mutant: the count is lowered once per evicted item, not per user message.
EvictOldest_CountsAll(h) ==
  IF h.items = << >> THEN h
  ELSE [items |-> Tail(h.items), turns |-> IF h.turns = 0 THEN 0 ELSE h.turns - 1]

\* _evict_oldest_turn: the first item and all that follow it up to the next
\* user message.
EvictOldest(h) ==
  LET users == {n \in DOMAIN h.items : n > 1 /\ IsUser(h.items[n])}
      next  == IF users = {} THEN Len(h.items) + 1 ELSE Min(users)
  IN IF h.items = << >> THEN h
     ELSE [items |-> SubSeq(h.items, next, Len(h.items)),
           turns |-> h.turns - (IF IsUser(h.items[1]) THEN 1 ELSE 0)]

\* "while count > limit: evict": it ends only if the count reaches the limit.
EvictTo(h, limit) ==
  LET after[n \in 0..Len(h.items)] ==
        IF n = 0 THEN h ELSE EvictOldest(after[n - 1])
  IN after[Min({n \in DOMAIN after : after[n].turns <= limit})]

\* Mutant: no cap.
HardCap_None(h) == h

\* The safety net at the end of add_item.
HardCap(h) == IF h.turns > 2 * Size THEN EvictTo(h, 2 * Size) ELSE h

Store(h) == buffer' = h.items /\ userTurns' = h.turns

-----------------------------------------------------------------------------
(* add_item. *)

Extend(items, turns) ==
  Store(HardCap([items |-> buffer \o items, turns |-> userTurns + turns]))

CanAdd == nextId <= MaxItems

AddUser ==
  /\ CanAdd
  /\ Extend(<<Item("user", NoCall)>>, 1)
  /\ nextId' = nextId + 1
  /\ UNCHANGED <<pending, gen, inFlight, closing, workers, compactor, resets, repeated>>

AddAssistant ==
  /\ CanAdd
  /\ Extend(<<Item("assistant", NoCall)>>, 0)
  /\ nextId' = nextId + 1
  /\ UNCHANGED <<pending, gen, inFlight, closing, workers, compactor, resets, repeated>>

HasCall(c) == \E n \in DOMAIN buffer : buffer[n].kind = "call" /\ buffer[n].call = c

\* A call waits outside the buffer for its output.  The model uses each
\* identifier for one call (the LLM draws them).
AddCall(c) ==
  /\ CanAdd
  /\ ~HasCall(c) /\ c \notin {k.call : k \in pending}
  /\ pending' = pending \cup {Item("call", c)}
  /\ nextId' = nextId + 1
  /\ Store(HardCap(Now))
  /\ UNCHANGED <<gen, inFlight, closing, workers, compactor, resets, repeated>>

\* Mutant: the output is appended without its call.
OutputItems_NoCall(c) == <<Item("output", c)>>

\* A pending call enters the buffer with its output, next to it.
OutputItems(c) ==
  IF HasCall(c) THEN <<Item("output", c)>>
  ELSE SetToSeq({k \in pending : k.call = c}) \o <<Item("output", c)>>

\* _append_tool_output_locked; an output for an unknown call is refused.
AddOutput(c) ==
  /\ CanAdd
  /\ HasCall(c) \/ c \in {k.call : k \in pending}
  /\ Extend(OutputItems(c), 0)
  /\ pending' = {k \in pending : k.call # c}
  /\ repeated' = (repeated \/ HasCall(c))
  /\ nextId' = nextId + 1
  /\ UNCHANGED <<gen, inFlight, closing, workers, compactor, resets>>

-----------------------------------------------------------------------------
(* trim_if_needed: evict, or start a compaction in the background. *)

Evict ==
  /\ ~compactor /\ userTurns > Size
  /\ Store(EvictTo(Now, Size))
  /\ UNCHANGED <<pending, gen, inFlight, closing, workers, compactor, nextId,
                 resets, repeated>>

\* Mutant: the latest turn is compacted too.
Compactable_All == userTurns

\* Turns a compaction may take: the latest may still be in progress.
Compactable == IF userTurns = 0 THEN 0 ELSE userTurns - 1

\* _snapshot_for_compaction: what precedes the (Compactable + 1)-th user message.
Markers ==
  LET seen(n) == UserCount(SubSeq(buffer, 1, n))
  IN {buffer[n].id : n \in {m \in DOMAIN buffer : seen(m) <= Compactable}}

\* _maybe_trigger_compaction, single-flight.
TriggerCompaction ==
  /\ compactor /\ userTurns > Size
  /\ ~Shutdown /\ ~inFlight
  /\ Compactable >= 2
  /\ Markers # {}
  /\ inFlight' = TRUE
  /\ workers' = workers \cup
       {[gen |-> gen, markers |-> Markers, epoch |-> resets, pc |-> "start"]}
  /\ UNCHANGED <<buffer, pending, userTurns, gen, closing, compactor, nextId,
                 resets, repeated>>

-----------------------------------------------------------------------------
(* _compact_worker. *)

Current(w) == ~Shutdown /\ gen = w.gen
Goto(w, pc) == workers' = (workers \ {w}) \cup {[w EXCEPT !.pc = pc]}

\* The check before the LLM call, without the lock.
WorkerStart(w) ==
  /\ w.pc = "start"
  /\ Goto(w, IF Current(w) THEN "call" ELSE "finally")
  /\ UNCHANGED <<buffer, pending, userTurns, gen, inFlight, closing, compactor,
                 nextId, resets, repeated>>

\* The LLM call returns or fails; the check after it holds no lock either.
Summarised(w) ==
  /\ w.pc = "call"
  /\ \E ok \in BOOLEAN :
       Goto(w, IF ok /\ Current(w) THEN "apply" ELSE "finally")
  /\ UNCHANGED <<buffer, pending, userTurns, gen, inFlight, closing, compactor,
                 nextId, resets, repeated>>

\* The items a splice drops: those of the snapshot still there, but not a call
\* whose output is not among them.
Dropped(w) ==
  LET inRange  == {buffer[n] : n \in {m \in DOMAIN buffer : buffer[m].id \in w.markers}}
      answered == {i.call : i \in {j \in inRange : j.kind = "output"}}
  IN {i \in inRange : i.kind # "call" \/ i.call \in answered}

\* The items that are not gone, in their order.
Without(items, gone) ==
  LET kept[n \in 0..Len(items)] ==
        IF n = 0 THEN << >>
        ELSE IF items[n] \in gone THEN kept[n - 1] ELSE Append(kept[n - 1], items[n])
  IN kept[Len(items)]

\* Mutant: the count is lowered by the items of the snapshot, not recounted.
Spliced_NoRecount(w) ==
  LET new(n, kind) == [kind |-> kind, id |-> n, call |-> NoCall, epoch |-> w.epoch]
  IN [items |-> <<new(nextId, "user"), new(nextId + 1, "assistant")>>
                  \o Without(buffer, Dropped(w)),
      turns |-> userTurns + 1 - Cardinality(w.markers)]

\* The summary pair, then what the compaction did not take; counted anew.
Spliced(w) ==
  LET new(n, kind) == [kind |-> kind, id |-> n, call |-> NoCall, epoch |-> w.epoch]
      items == <<new(nextId, "user"), new(nextId + 1, "assistant")>>
                 \o Without(buffer, Dropped(w))
  IN [items |-> items, turns |-> UserCount(items)]

\* Mutant: the splice trusts the check made before it took the lock.
MayApply_Unchecked(w) == TRUE

\* The check under the lock.
MayApply(w) == Current(w)

\* _apply_compaction.
ApplyCompaction(w) ==
  /\ w.pc = "apply"
  /\ Goto(w, "finally")
  /\ IF MayApply(w)
     THEN Store(Spliced(w)) /\ nextId' = nextId + 2
     ELSE UNCHANGED <<buffer, userTurns, nextId>>
  /\ UNCHANGED <<pending, gen, inFlight, closing, compactor, resets, repeated>>

\* Mutant: the flag is cleared whoever's it is.
FlagAfter_Clobbered(w) == FALSE
\* Mutant: the flag stays up.
FlagAfter_Kept(w) == inFlight

\* The finally block spares the flag of a later compaction.
FlagAfter(w) == inFlight /\ gen # w.gen

WorkerEnd(w) ==
  /\ w.pc = "finally"
  /\ workers' = workers \ {w}
  /\ inFlight' = FlagAfter(w)
  /\ UNCHANGED <<buffer, pending, userTurns, gen, closing, compactor, nextId,
                 resets, repeated>>

-----------------------------------------------------------------------------
Reset ==
  /\ resets < MaxResets
  /\ resets' = resets + 1
  /\ gen' = gen + 1
  /\ inFlight' = FALSE
  /\ buffer' = << >> /\ pending' = {} /\ userTurns' = 0
  /\ UNCHANGED <<closing, workers, compactor, nextId, repeated>>

\* close() sets _shutdown before it takes the lock.
CloseBegin ==
  /\ closing = "open"
  /\ closing' = "shutdown"
  /\ UNCHANGED <<buffer, pending, userTurns, gen, inFlight, workers, compactor,
                 nextId, resets, repeated>>

CloseEnd ==
  /\ closing = "shutdown"
  /\ closing' = "closed"
  /\ gen' = gen + 1
  /\ inFlight' = FALSE
  /\ UNCHANGED <<buffer, pending, userTurns, workers, compactor, nextId, resets,
                 repeated>>

Work == \E w \in workers :
  WorkerStart(w) \/ Summarised(w) \/ ApplyCompaction(w) \/ WorkerEnd(w)

Next ==
  \/ AddUser \/ AddAssistant
  \/ \E c \in Calls : AddCall(c) \/ AddOutput(c)
  \/ Evict \/ TriggerCompaction
  \/ Work
  \/ Reset \/ CloseBegin \/ CloseEnd

\* A worker thread runs to its end: the summarising call returns or raises.
Spec == Init /\ [][Next]_vars /\ WF_vars(Work)

-----------------------------------------------------------------------------
(* Properties. *)

ItemType == [kind : {"user", "assistant", "call", "output"}, id : Nat,
             call : Calls \cup {NoCall}, epoch : Nat]
WorkerType == [gen : Nat, markers : SUBSET Nat, epoch : Nat,
               pc : {"start", "call", "apply", "finally"}]

\* The type invariant.
TypeOK ==
  /\ buffer \in Seq(ItemType)
  /\ pending \subseteq ItemType
  /\ userTurns \in Nat /\ gen \in Nat /\ nextId \in Nat /\ resets \in Nat
  /\ inFlight \in BOOLEAN /\ compactor \in BOOLEAN /\ repeated \in BOOLEAN
  /\ closing \in {"open", "shutdown", "closed"}
  /\ workers \subseteq WorkerType

\* The cached count is the number of user messages, through evictions that
\* race a splice: a count left above it would keep the eviction loops of
\* add_item and trim_if_needed running forever with the lock held.
TurnCountExact == userTurns = UserCount(buffer)

\* Until a call is answered twice, every tool output in the buffer follows its
\* call there: the LLM API refuses an orphan, so eviction and splice must take
\* both or neither.
Paired ==
  ~repeated =>
    \A n \in DOMAIN buffer : buffer[n].kind = "output" =>
      \E m \in 1..(n - 1) : buffer[m].kind = "call" /\ buffer[m].call = buffer[n].call

\* One compaction at a time: no two threads hold a snapshot they may splice in.
SingleFlight == Cardinality({w \in workers : w.gen = gen}) <= 1

\* The runaway-client net: at most twice the configured turns, plus the summary
\* a splice prepends after the cap has evicted what it summarised.
Bounded == UserCount(buffer) <= 2 * Size + 1

\* The buffer the next prompt is made of.
HistorySound == TypeOK /\ TurnCountExact /\ Paired /\ Bounded

\* Nothing said before a reset comes back, not even as a summary.
NoResurrection == \A n \in DOMAIN buffer : buffer[n].epoch = resets

\* A background compaction never writes over what happened since it began.
SplicesFit == SingleFlight /\ NoResurrection

LatestTurn == LET users == {n \in DOMAIN buffer : IsUser(buffer[n])}
              IN IF users = {} THEN {} ELSE {buffer[n] : n \in Max(users)..Len(buffer)}

\* No step but a reset takes the latest user message, or anything after it,
\* away: neither an eviction nor the splice of an old snapshot.
LatestTurnKept == [][resets' = resets => LatestTurn \subseteq ToSet(buffer')]_vars

\* A compaction that starts does not block the ones after it forever.
FlagClears == inFlight ~> ~inFlight
=============================================================================
