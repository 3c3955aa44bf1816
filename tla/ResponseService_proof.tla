------------------------ MODULE ResponseService_proof ------------------------
(***************************************************************************)
(* Proofs about ResponseService and Metering, for every bound and every    *)
(* set of interrupt modes.  The lemmas follow the code: one for each       *)
(* helper of ResponseHandler, then one for each handler, then what follows *)
(* of the lifecycle, of the items of a response and of the counters.       *)
(***************************************************************************)
EXTENDS Metering, FiniteSetTheorems, SequenceTheorems, TLAPS

-----------------------------------------------------------------------------
(* What the helpers do to the ConnState. *)

\* ConnCoherent, of any connection state.
Coherent(s) ==
  /\ s.in_response <=> s.current_response_id # NoId
  /\ s.response_created_sent => s.in_response
  /\ s.output_item_added => /\ s.response_created_sent
                            /\ s.current_item_id # NoId
  /\ s.current_response_id < s.next_response
  /\ s.current_item_id < s.next_item

Good(s) == s \in ConnState /\ Coherent(s)

\* What a handler may do to the response in progress: leave it (and never
\* forget that it was announced), open a fresh one, or close it.
Kept(s, t) ==
  /\ t.current_response_id = s.current_response_id
  /\ t.next_response = s.next_response
  /\ s.response_created_sent => t.response_created_sent
Opened(s, t) ==
  /\ s.current_response_id = NoId
  /\ t.current_response_id = s.next_response
  /\ t.next_response = s.next_response + 1
Ended(s, t) ==
  /\ s.current_response_id # NoId
  /\ t.current_response_id = NoId
  /\ t.next_response = s.next_response

\* One assignment to a field, of a value of its type, leaves a ConnState.
LEMMA FieldUpdate ==
  ASSUME NEW s \in ConnState, NEW b \in BOOLEAN, NEW n \in Nat
  PROVE  /\ [s EXCEPT !.in_response = b] \in ConnState
         /\ [s EXCEPT !.current_response_id = n] \in ConnState
         /\ [s EXCEPT !.current_item_id = n] \in ConnState
         /\ [s EXCEPT !.response_created_sent = b] \in ConnState
         /\ [s EXCEPT !.output_item_added = b] \in ConnState
         /\ [s EXCEPT !.interrupt_response = b] \in ConnState
         /\ [s EXCEPT !.next_response = n + 1] \in ConnState
         /\ [s EXCEPT !.next_item = n + 1] \in ConnState
BY DEF ConnState

LEMMA StartItemFields ==
  ASSUME NEW s \in ConnState
  PROVE  /\ StartItem(s) \in ConnState
         /\ StartItem(s).in_response = s.in_response
         /\ StartItem(s).current_response_id = s.current_response_id
         /\ StartItem(s).response_created_sent = s.response_created_sent
         /\ StartItem(s).next_response = s.next_response
         /\ StartItem(s).current_item_id = s.next_item
         /\ StartItem(s).next_item = s.next_item + 1
         /\ StartItem(s).output_item_added = FALSE
<1>1. StartItem(s) \in ConnState
  <2> DEFINE s1 == [s EXCEPT !.current_item_id = s.next_item]
             s2 == [s1 EXCEPT !.next_item = s.next_item + 1]
  <2>1. s.next_item \in Nat
    BY DEF ConnState
  <2>2. s1 \in ConnState
    BY <2>1, FieldUpdate
  <2>3. s2 \in ConnState
    BY <2>1, <2>2, FieldUpdate
  <2>4. [s2 EXCEPT !.output_item_added = FALSE] \in ConnState
    BY <2>3, FieldUpdate
  <2> QED  BY <2>4 DEF StartItem
<1>2. /\ StartItem(s).in_response = s.in_response
      /\ StartItem(s).response_created_sent = s.response_created_sent
      /\ StartItem(s).output_item_added = FALSE
  BY Zenon DEF ConnState, StartItem
<1>3. /\ StartItem(s).current_response_id = s.current_response_id
      /\ StartItem(s).next_response = s.next_response
      /\ StartItem(s).current_item_id = s.next_item
      /\ StartItem(s).next_item = s.next_item + 1
  BY DEF ConnState, StartItem
<1> QED  BY <1>1, <1>2, <1>3

LEMMA OpenResponseFields ==
  ASSUME NEW s \in ConnState
  PROVE  /\ OpenResponse(s) \in ConnState
         /\ OpenResponse(s).in_response = TRUE
         /\ OpenResponse(s).response_created_sent = s.response_created_sent
         /\ OpenResponse(s).output_item_added = FALSE
         /\ OpenResponse(s).current_response_id = s.next_response
         /\ OpenResponse(s).next_response = s.next_response + 1
         /\ OpenResponse(s).current_item_id = s.next_item
         /\ OpenResponse(s).next_item = s.next_item + 1
<1> DEFINE s1 == [s EXCEPT !.in_response = TRUE]
           s2 == [s1 EXCEPT !.current_response_id = s.next_response]
           s3 == [s2 EXCEPT !.next_response = s.next_response + 1]
<1>1. s.next_response \in Nat
  BY DEF ConnState
<1>2. s1 \in ConnState
  BY FieldUpdate
<1>3. s2 \in ConnState
  BY <1>1, <1>2, FieldUpdate
<1>4. s3 \in ConnState
  BY <1>1, <1>3, FieldUpdate
<1>5. /\ s3.in_response = TRUE
      /\ s3.response_created_sent = s.response_created_sent
  BY Zenon DEF ConnState
<1>6. /\ s3.current_response_id = s.next_response
      /\ s3.next_response = s.next_response + 1
      /\ s3.next_item = s.next_item
  BY DEF ConnState
<1>7. OpenResponse(s) = StartItem(s3)
  BY DEF OpenResponse
<1> HIDE DEF s3
<1> QED  BY <1>4, <1>5, <1>6, <1>7, StartItemFields

LEMMA EndResponseFields ==
  ASSUME NEW s \in ConnState
  PROVE  /\ EndResponse(s) \in ConnState
         /\ EndResponse(s).in_response = FALSE
         /\ EndResponse(s).response_created_sent = FALSE
         /\ EndResponse(s).output_item_added = FALSE
         /\ EndResponse(s).current_response_id = NoId
         /\ EndResponse(s).current_item_id = NoId
         /\ EndResponse(s).next_response = s.next_response
         /\ EndResponse(s).next_item = s.next_item
<1> DEFINE s1 == [s EXCEPT !.in_response = FALSE]
           s2 == [s1 EXCEPT !.current_response_id = NoId]
           s3 == [s2 EXCEPT !.current_item_id = NoId]
           s4 == [s3 EXCEPT !.response_created_sent = FALSE]
<1>1. NoId \in Nat
  BY DEF NoId
<1>2. s1 \in ConnState
  BY FieldUpdate
<1>3. s2 \in ConnState
  BY <1>1, <1>2, FieldUpdate
<1>4. s3 \in ConnState
  BY <1>1, <1>3, FieldUpdate
<1>5. s4 \in ConnState
  BY <1>4, FieldUpdate
<1>6. [s4 EXCEPT !.output_item_added = FALSE] \in ConnState
  BY <1>5, FieldUpdate
<1>7. /\ EndResponse(s).in_response = FALSE
      /\ EndResponse(s).response_created_sent = FALSE
      /\ EndResponse(s).output_item_added = FALSE
  BY Zenon DEF ConnState, EndResponse
<1>8. /\ EndResponse(s).current_response_id = NoId
      /\ EndResponse(s).current_item_id = NoId
      /\ EndResponse(s).next_response = s.next_response
      /\ EndResponse(s).next_item = s.next_item
  BY DEF ConnState, EndResponse
<1> QED  BY <1>6, <1>7, <1>8 DEF EndResponse

LEMMA AnnouncedFields ==
  ASSUME NEW s \in ConnState
  PROVE  /\ Announced(s) \in ConnState
         /\ Announced(s).in_response = s.in_response
         /\ Announced(s).response_created_sent = TRUE
         /\ Announced(s).output_item_added = TRUE
         /\ Announced(s).current_response_id = s.current_response_id
         /\ Announced(s).next_response = s.next_response
         /\ Announced(s).current_item_id = s.current_item_id
         /\ Announced(s).next_item = s.next_item
<1> DEFINE s1 == [s EXCEPT !.response_created_sent = TRUE]
<1>1. s1 \in ConnState
  BY FieldUpdate
<1>2. [s1 EXCEPT !.output_item_added = TRUE] \in ConnState
  BY <1>1, FieldUpdate
<1>3. /\ Announced(s).in_response = s.in_response
      /\ Announced(s).response_created_sent = TRUE
      /\ Announced(s).output_item_added = TRUE
  BY Zenon DEF ConnState, Announced
<1>4. /\ Announced(s).current_response_id = s.current_response_id
      /\ Announced(s).next_response = s.next_response
      /\ Announced(s).current_item_id = s.current_item_id
      /\ Announced(s).next_item = s.next_item
  BY DEF ConnState, Announced
<1> QED  BY <1>2, <1>3, <1>4 DEF Announced

-----------------------------------------------------------------------------
(* The helpers keep the state coherent. *)

LEMMA ConnFieldTypes ==
  ASSUME NEW s \in ConnState
  PROVE  /\ s.current_response_id \in Nat /\ s.current_item_id \in Nat
         /\ s.next_response \in Nat \ {0} /\ s.next_item \in Nat \ {0}
         /\ s.in_response \in BOOLEAN /\ s.response_created_sent \in BOOLEAN
         /\ s.output_item_added \in BOOLEAN
BY DEF ConnState

LEMMA StartItemGood ==
  ASSUME NEW s, Good(s)
  PROVE  /\ Good(StartItem(s)) /\ Kept(s, StartItem(s))
         /\ StartItem(s).current_item_id # NoId
<1> DEFINE t == StartItem(s)
<1>1. s \in ConnState
  BY DEF Good
<1>2. /\ t.current_response_id < t.next_response
      /\ t.current_item_id < t.next_item
      /\ t.current_item_id # NoId
  <2>1. /\ s.current_response_id \in Nat /\ s.current_item_id \in Nat
        /\ s.next_response \in Nat \ {0} /\ s.next_item \in Nat \ {0}
    BY Zenon, <1>1, ConnFieldTypes
  <2>2. s.current_response_id < s.next_response
    BY DEF Good, Coherent
  <2>3. /\ t.current_response_id = s.current_response_id
        /\ t.next_response = s.next_response
        /\ t.current_item_id = s.next_item
        /\ t.next_item = s.next_item + 1
    BY Zenon, <1>1, StartItemFields
  <2> QED  BY <2>1, <2>2, <2>3 DEF NoId
<1>3. /\ t.in_response <=> t.current_response_id # NoId
      /\ t.response_created_sent => t.in_response
      /\ ~t.output_item_added
  <2>1. /\ s.in_response <=> s.current_response_id # NoId
        /\ s.response_created_sent => s.in_response
    BY DEF Good, Coherent
  <2>2. /\ t.in_response = s.in_response
        /\ t.response_created_sent = s.response_created_sent
        /\ t.current_response_id = s.current_response_id
        /\ t.output_item_added = FALSE
    BY Zenon, <1>1, StartItemFields
  <2> QED  BY Zenon, <2>1, <2>2
<1>4. Kept(s, t)
  BY Zenon, <1>1, StartItemFields DEF Kept
<1> QED  BY <1>1, <1>2, <1>3, <1>4, StartItemFields DEF Good, Coherent

LEMMA CurrentItemGood ==
  ASSUME NEW s, Good(s)
  PROVE  /\ Good(CurrentItem(s)) /\ Kept(s, CurrentItem(s))
         /\ CurrentItem(s).current_item_id # NoId
         /\ CurrentItem(s).in_response = s.in_response
         /\ CurrentItem(s).response_created_sent = s.response_created_sent
         /\ s.current_item_id # NoId => CurrentItem(s) = s
<1>1. CASE s.current_item_id # NoId
  BY <1>1 DEF CurrentItem, Kept
<1>2. CASE s.current_item_id = NoId
  <2>1. CurrentItem(s) = StartItem(s)
    BY <1>2 DEF CurrentItem
  <2>2. /\ StartItem(s).in_response = s.in_response
        /\ StartItem(s).response_created_sent = s.response_created_sent
    <3>1. s \in ConnState
      BY DEF Good
    <3> QED  BY Zenon, <3>1, StartItemFields
  <2> QED  BY <1>2, <2>1, <2>2, StartItemGood
<1> QED  BY <1>1, <1>2

LEMMA OpenResponseGood ==
  ASSUME NEW s, Good(s), ~s.in_response
  PROVE  /\ Good(OpenResponse(s)) /\ Opened(s, OpenResponse(s))
         /\ OpenResponse(s).in_response
         /\ ~OpenResponse(s).response_created_sent
         /\ OpenResponse(s).current_item_id # NoId
<1> DEFINE t == OpenResponse(s)
<1>1. s \in ConnState /\ s.current_response_id = NoId /\ ~s.response_created_sent
  BY DEF Good, Coherent
<1>2. /\ t.current_response_id < t.next_response
      /\ t.current_item_id < t.next_item
      /\ t.current_item_id # NoId
      /\ t.current_response_id # NoId
  <2>1. /\ s.current_response_id \in Nat /\ s.current_item_id \in Nat
        /\ s.next_response \in Nat \ {0} /\ s.next_item \in Nat \ {0}
    BY Zenon, <1>1, ConnFieldTypes
  <2>2. /\ t.current_response_id = s.next_response
        /\ t.next_response = s.next_response + 1
        /\ t.current_item_id = s.next_item
        /\ t.next_item = s.next_item + 1
    BY Zenon, <1>1, OpenResponseFields
  <2> QED  BY <2>1, <2>2 DEF NoId
<1>3. /\ t.in_response
      /\ ~t.response_created_sent
      /\ ~t.output_item_added
  BY Zenon, <1>1, OpenResponseFields
<1>4. Opened(s, t)
  BY Zenon, <1>1, OpenResponseFields DEF Opened
<1> QED  BY <1>1, <1>2, <1>3, <1>4, OpenResponseFields DEF Good, Coherent

LEMMA EnsureResponseGood ==
  ASSUME NEW s, Good(s)
  PROVE  /\ Good(EnsureResponse(s))
         /\ IF s.in_response THEN Kept(s, EnsureResponse(s)) ELSE Opened(s, EnsureResponse(s))
         /\ EnsureResponse(s).in_response
         /\ EnsureResponse(s).response_created_sent = s.response_created_sent
         /\ EnsureResponse(s).current_item_id # NoId
<1>1. CASE s.in_response
  <2>1. EnsureResponse(s) = CurrentItem(s)
    BY <1>1 DEF EnsureResponse, Good, Coherent
  <2> QED  BY <1>1, <2>1, CurrentItemGood
<1>2. CASE ~s.in_response
  <2> DEFINE o == OpenResponse(s)
  <2>1. EnsureResponse(s) = CurrentItem(o)
    BY <1>2 DEF EnsureResponse, Good, Coherent
  <2>2. /\ Good(o) /\ Opened(s, o) /\ o.in_response
        /\ ~o.response_created_sent /\ o.current_item_id # NoId
    BY <1>2, OpenResponseGood
  <2>3. CurrentItem(o) = o
    BY <2>2, CurrentItemGood
  <2>4. ~s.response_created_sent /\ s.response_created_sent \in BOOLEAN
        /\ o.response_created_sent \in BOOLEAN
    BY <1>2, <2>2, ConnFieldTypes DEF Good, Coherent
  <2> QED  BY <1>2, <2>1, <2>2, <2>3, <2>4
<1> QED  BY <1>1, <1>2

LEMMA AnnouncedGood ==
  ASSUME NEW s, Good(s), s.in_response, s.current_item_id # NoId
  PROVE  /\ Good(Announced(s))
         /\ Announced(s).current_response_id = s.current_response_id
         /\ Announced(s).next_response = s.next_response
         /\ Announced(s).response_created_sent
<1> DEFINE t == Announced(s)
<1>1. /\ s \in ConnState
      /\ s.current_response_id # NoId
      /\ s.current_response_id < s.next_response
      /\ s.current_item_id < s.next_item
  BY DEF Good, Coherent
<1>2. /\ t \in ConnState
      /\ t.current_response_id = s.current_response_id
      /\ t.next_response = s.next_response
      /\ t.current_item_id = s.current_item_id
      /\ t.next_item = s.next_item
  BY Zenon, <1>1, AnnouncedFields
<1>3. t.in_response = s.in_response /\ t.response_created_sent = TRUE
  BY Zenon, <1>1, AnnouncedFields
<1>4. t.in_response /\ t.response_created_sent
  BY Zenon, <1>3
<1>5. /\ t.current_response_id # NoId /\ t.current_item_id # NoId
      /\ t.current_response_id < t.next_response
      /\ t.current_item_id < t.next_item
  BY Zenon, <1>1, <1>2
<1> QED  BY Zenon, <1>2, <1>4, <1>5 DEF Good, Coherent

LEMMA EndResponseGood ==
  ASSUME NEW s, Good(s)
  PROVE  /\ Good(EndResponse(s))
         /\ EndResponse(s).current_response_id = NoId
         /\ EndResponse(s).next_response = s.next_response
<1> DEFINE t == EndResponse(s)
<1>1. s \in ConnState
  BY DEF Good
<1>2. /\ t \in ConnState
      /\ t.current_response_id = NoId
      /\ t.current_item_id = NoId
      /\ t.next_response = s.next_response
      /\ t.next_item = s.next_item
  BY Zenon, <1>1, EndResponseFields
<1>3. ~t.in_response /\ ~t.response_created_sent /\ ~t.output_item_added
  BY Zenon, <1>1, EndResponseFields
<1>4. s.next_response \in Nat \ {0} /\ s.next_item \in Nat \ {0}
  BY Zenon, <1>1, ConnFieldTypes
<1>5. t.current_response_id < t.next_response /\ t.current_item_id < t.next_item
  BY <1>2, <1>4 DEF NoId
<1> QED  BY Zenon, <1>2, <1>3, <1>5 DEF Good, Coherent

LEMMA FinishedGood ==
  ASSUME NEW s, Good(s)
  PROVE  /\ Good(Finished(s))
         /\ s.in_response => Ended(s, Finished(s))
         /\ ~s.in_response => Finished(s) = s
<1>1. CASE ~s.in_response
  BY <1>1 DEF Finished
<1>2. CASE s.in_response
  <2> DEFINE e == EnsureResponse(s)
  <2>1. Finished(s) = EndResponse(e) /\ s.current_response_id # NoId
    BY <1>2 DEF Finished, Good, Coherent
  <2>2. Good(e) /\ Kept(s, e)
    BY <1>2, EnsureResponseGood
  <2> HIDE DEF e
  <2> QED  BY <1>2, <2>1, <2>2, EndResponseGood DEF Ended, Kept
<1> QED  BY <1>1, <1>2

LEMMA TurnOpenedGood ==
  ASSUME NEW s, Good(s)
  PROVE  /\ Good(TurnOpened(s))
         /\ IF s.in_response THEN TurnOpened(s) = s ELSE Opened(s, TurnOpened(s))
<1>1. CASE s.in_response
  BY <1>1 DEF TurnOpened
<1>2. CASE ~s.in_response
  <2> DEFINE o == OpenResponse(s)
             t == [o EXCEPT !.response_created_sent = TRUE]
  <2>1. /\ Good(o) /\ Opened(s, o) /\ o.in_response /\ o.current_item_id # NoId
    BY <1>2, OpenResponseGood
  <2> HIDE DEF o
  <2>2. o \in ConnState
    BY <2>1 DEF Good
  <2>3. t \in ConnState
    BY <2>2, FieldUpdate
  <2>4. t.in_response = o.in_response /\ t.response_created_sent = TRUE
    BY Zenon, <2>2 DEF ConnState
  <2>5. /\ t.current_response_id = o.current_response_id
        /\ t.next_response = o.next_response
        /\ t.current_item_id = o.current_item_id
        /\ t.next_item = o.next_item
    BY <2>2 DEF ConnState
  <2>6. /\ o.current_response_id # NoId
        /\ o.current_response_id < o.next_response
        /\ o.current_item_id < o.next_item
    BY <2>1 DEF Good, Coherent
  <2>7. TurnOpened(s) = t
    BY <1>2 DEF TurnOpened, o
  <2> HIDE DEF t
  <2>8. t.in_response /\ t.response_created_sent
    BY Zenon, <2>1, <2>4
  <2>9. Good(t)
    BY Zenon, <2>1, <2>3, <2>5, <2>6, <2>8 DEF Good, Coherent
  <2>10. Opened(s, t)
    BY Zenon, <2>1, <2>5 DEF Opened
  <2> QED  BY Zenon, <1>2, <2>7, <2>9, <2>10
<1> QED  BY <1>1, <1>2

-----------------------------------------------------------------------------
(* What the handlers return. *)

LEMMA ToSetConcat ==
  ASSUME NEW f \in Seq(Event), NEW g \in Seq(Event)
  PROVE  /\ f \o g \in Seq(Event)
         /\ ToSet(f \o g) = ToSet(f) \cup ToSet(g)
<1>1. /\ f \o g \in Seq(Event)
      /\ Len(f \o g) = Len(f) + Len(g)
      /\ \A i \in 1 .. Len(f) + Len(g) :
           (f \o g)[i] = IF i <= Len(f) THEN f[i] ELSE g[i - Len(f)]
  BY ConcatProperties
<1>2. ASSUME NEW i \in 1 .. Len(f)
      PROVE  f[i] \in ToSet(f \o g)
  <2>1. i \in 1 .. Len(f) + Len(g) /\ i <= Len(f)
    OBVIOUS
  <2>2. (f \o g)[i] = f[i] /\ i \in DOMAIN (f \o g)
    BY <1>1, <2>1
  <2> QED  BY <2>2 DEF ToSet
<1>3. ASSUME NEW i \in 1 .. Len(g)
      PROVE  g[i] \in ToSet(f \o g)
  <2>1. i + Len(f) \in 1 .. Len(f) + Len(g) /\ ~(i + Len(f) <= Len(f)) /\ i + Len(f) - Len(f) = i
    OBVIOUS
  <2>2. (f \o g)[i + Len(f)] = g[i] /\ i + Len(f) \in DOMAIN (f \o g)
    BY <1>1, <2>1
  <2> QED  BY <2>2 DEF ToSet
<1>4. ASSUME NEW i \in 1 .. Len(f) + Len(g)
      PROVE  (f \o g)[i] \in ToSet(f) \cup ToSet(g)
  <2>1. CASE i <= Len(f)
    <3>1. i \in DOMAIN f
      BY <2>1
    <3> QED  BY <1>1, <2>1, <3>1 DEF ToSet
  <2>2. CASE ~(i <= Len(f))
    <3>1. i - Len(f) \in DOMAIN g
      BY <2>2
    <3> QED  BY <1>1, <2>2, <3>1 DEF ToSet
  <2> QED  BY <2>1, <2>2
<1>5. /\ DOMAIN f = 1 .. Len(f) /\ DOMAIN g = 1 .. Len(g)
      /\ DOMAIN (f \o g) = 1 .. Len(f) + Len(g)
  BY <1>1
<1> QED  BY <1>1, <1>2, <1>3, <1>4, <1>5 DEF ToSet

LEMMA NoEvents == << >> \in Seq(Event) /\ ToSet(<< >>) = {}
BY DEF ToSet

LEMMA OneEvent ==
  ASSUME NEW d \in Event
  PROVE  <<d>> \in Seq(Event) /\ ToSet(<<d>>) = {d}
BY DEF ToSet

LEMMA TwoEvents ==
  ASSUME NEW d \in Event, NEW e \in Event
  PROVE  <<d, e>> \in Seq(Event) /\ ToSet(<<d, e>>) = {d, e}
BY DEF ToSet

LEMMA EventFields ==
  ASSUME NEW s \in ConnState, NEW type \in EventTypes
  PROVE  /\ ResponseEvent(type, s) \in Event
         /\ ItemEvent(type, s) \in Event
         /\ UserEvent(type, s) \in Event
         /\ ResponseEvent(type, s).type = type
         /\ ItemEvent(type, s).type = type
         /\ UserEvent(type, s).type = type
         /\ ResponseEvent(type, s).response = s.current_response_id
         /\ ItemEvent(type, s).response = s.current_response_id
         /\ UserEvent(type, s).response = NoId
<1> USE DEF ResponseEvent, ItemEvent, UserEvent
<1>1. s.current_response_id \in Nat /\ s.current_item_id \in Nat /\ NoId \in Nat
  BY ConnFieldTypes DEF NoId
<1> QED  BY <1>1 DEF Event

\* The events of one handler, as a set, seen against the state before and
\* the state after it.
Says(s, t, events) ==
  /\ events \subseteq Event
  /\ \A e \in events : e.response \in {NoId, s.current_response_id, t.current_response_id}
  /\ \A e \in events : e.type = "response.created" =>
       /\ e.response = t.current_response_id /\ e.response # NoId
       /\ ~s.response_created_sent /\ t.response_created_sent
  /\ \A e \in events : e.type = "response.done" =>
       Ended(s, t) /\ e.response = s.current_response_id
  /\ Ended(s, t) => \E e \in events : e.type = "response.done"

LEMMA BeginEventsSay ==
  ASSUME NEW s \in ConnState
  PROVE  /\ BeginEvents(s) \in Seq(Event)
         /\ \A e \in ToSet(BeginEvents(s)) :
              /\ e \in Event /\ e.response = s.current_response_id
              /\ e.type # "response.done"
              /\ e.type = "response.created" => ~s.response_created_sent
<1> DEFINE created == IF s.response_created_sent THEN << >>
                      ELSE <<ResponseEvent("response.created", s)>>
           added   == IF s.output_item_added THEN << >>
                      ELSE <<ItemEvent("output_item.added", s), ItemEvent("content_part.added", s)>>
<1>1. BeginEvents(s) = created \o added
  BY DEF BeginEvents
<1>2. /\ created \in Seq(Event)
      /\ \A e \in ToSet(created) :
           /\ e \in Event /\ e.response = s.current_response_id
           /\ e.type = "response.created" /\ ~s.response_created_sent
  <2> DEFINE d == ResponseEvent("response.created", s)
  <2>1. d \in Event /\ d.response = s.current_response_id /\ d.type = "response.created"
    <3>1. "response.created" \in EventTypes
      BY DEF EventTypes
    <3> QED  BY Zenon, <3>1, EventFields
  <2>2. created = IF s.response_created_sent THEN << >> ELSE <<d>>
    OBVIOUS
  <2> HIDE DEF d, created
  <2>3. CASE s.response_created_sent
    <3>1. created = << >>
      BY <2>2, <2>3
    <3> QED  BY <3>1, NoEvents
  <2>4. CASE ~s.response_created_sent
    <3>1. created = <<d>>
      BY <2>2, <2>4
    <3> QED  BY <2>1, <2>4, <3>1, OneEvent
  <2> QED  BY <2>3, <2>4
<1>3. /\ added \in Seq(Event)
      /\ \A e \in ToSet(added) :
           /\ e \in Event /\ e.response = s.current_response_id
           /\ e.type \in {"output_item.added", "content_part.added"}
  <2> DEFINE d == ItemEvent("output_item.added", s)
             p == ItemEvent("content_part.added", s)
  <2>1. /\ d \in Event /\ d.response = s.current_response_id /\ d.type = "output_item.added"
        /\ p \in Event /\ p.response = s.current_response_id /\ p.type = "content_part.added"
    <3>1. {"output_item.added", "content_part.added"} \subseteq EventTypes
      BY DEF EventTypes
    <3> QED  BY Zenon, <3>1, EventFields
  <2>2. added = IF s.output_item_added THEN << >> ELSE <<d, p>>
    OBVIOUS
  <2> HIDE DEF d, p, added
  <2>3. CASE s.output_item_added
    <3>1. added = << >>
      BY <2>2, <2>3
    <3> QED  BY <3>1, NoEvents
  <2>4. CASE ~s.output_item_added
    <3>1. added = <<d, p>>
      BY <2>2, <2>4
    <3> QED  BY <2>1, <3>1, TwoEvents
  <2> QED  BY <2>3, <2>4
<1> HIDE DEF created, added
<1>4. /\ BeginEvents(s) \in Seq(Event)
      /\ ToSet(BeginEvents(s)) = ToSet(created) \cup ToSet(added)
  BY <1>1, <1>2, <1>3, ToSetConcat
<1> QED  BY <1>2, <1>3, <1>4

LEMMA FinishEventsSay ==
  ASSUME NEW s, Good(s)
  PROVE  /\ FinishEvents(s) \in Seq(Event)
         /\ \A e \in ToSet(FinishEvents(s)) :
              /\ e \in Event /\ e.response = s.current_response_id
              /\ s.in_response /\ e.type # "response.created"
         /\ s.in_response => \E e \in ToSet(FinishEvents(s)) : e.type = "response.done"
<1>1. CASE ~s.in_response
  <2>1. FinishEvents(s) = << >>
    BY <1>1 DEF FinishEvents
  <2>2. << >> \in Seq(Event) /\ ToSet(<< >>) = {}
    BY DEF ToSet
  <2> QED  BY <1>1, <2>1, <2>2
<1>2. CASE s.in_response
  <2> DEFINE e == EnsureResponse(s)
             a == ItemEvent("output_audio.done", e)
             p == ItemEvent("content_part.done", e)
             o == ItemEvent("output_item.done", e)
             r == ResponseEvent("response.done", e)
             closing == IF e.output_item_added THEN <<p, o>> ELSE << >>
  <2>1. FinishEvents(s) = <<a>> \o closing \o <<r>>
    BY <1>2 DEF FinishEvents
  <2>2. e \in ConnState /\ e.current_response_id = s.current_response_id
    BY <1>2, EnsureResponseGood DEF Good, Kept
  <2> HIDE DEF e
  <2>3. /\ a \in Event /\ a.response = s.current_response_id /\ a.type = "output_audio.done"
        /\ p \in Event /\ p.response = s.current_response_id /\ p.type = "content_part.done"
        /\ o \in Event /\ o.response = s.current_response_id /\ o.type = "output_item.done"
        /\ r \in Event /\ r.response = s.current_response_id /\ r.type = "response.done"
    <3>1. {"output_audio.done", "content_part.done", "output_item.done",
           "response.done"} \subseteq EventTypes
      BY DEF EventTypes
    <3> QED  BY Zenon, <2>2, <3>1, EventFields
  <2> HIDE DEF a, p, o, r
  <2>4. closing \in Seq(Event) /\ ToSet(closing) \subseteq {p, o}
    <3>1. CASE e.output_item_added
      BY <2>3, <3>1, TwoEvents
    <3>2. CASE ~e.output_item_added
      BY <3>2, NoEvents
    <3> QED  BY <3>1, <3>2
  <2> HIDE DEF closing
  <2>9. <<a>> \in Seq(Event) /\ ToSet(<<a>>) = {a}
    BY <2>3, OneEvent
  <2>5. /\ <<a>> \o closing \in Seq(Event)
        /\ ToSet(<<a>> \o closing) \subseteq {a, p, o}
    BY <2>4, <2>9, ToSetConcat
  <2>6. <<r>> \in Seq(Event) /\ ToSet(<<r>>) = {r}
    BY <2>3, OneEvent
  <2>7. /\ (<<a>> \o closing) \o <<r>> \in Seq(Event)
        /\ ToSet((<<a>> \o closing) \o <<r>>) = ToSet(<<a>> \o closing) \cup {r}
    BY <2>5, <2>6, ToSetConcat
  <2>8. ToSet(FinishEvents(s)) \subseteq {a, p, o, r} /\ r \in ToSet(FinishEvents(s))
    BY <2>1, <2>5, <2>7
  <2> QED  BY <1>2, <2>1, <2>3, <2>7, <2>8
<1> QED  BY <1>1, <1>2

LEMMA TurnEventsSay ==
  ASSUME NEW s, Good(s)
  PROVE  /\ TurnEvents(s) \in Seq(Event)
         /\ \A e \in ToSet(TurnEvents(s)) :
              /\ e \in Event /\ e.type = "response.created"
              /\ e.response = TurnOpened(s).current_response_id /\ e.response # NoId
              /\ ~s.in_response /\ TurnOpened(s).response_created_sent
<1>1. CASE s.in_response
  <2>1. TurnEvents(s) = << >>
    BY <1>1 DEF TurnEvents
  <2>2. << >> \in Seq(Event) /\ ToSet(<< >>) = {}
    BY DEF ToSet
  <2> QED  BY <2>1, <2>2
<1>2. CASE ~s.in_response
  <2> DEFINE o == OpenResponse(s)
             c == ResponseEvent("response.created", o)
  <2>1. TurnEvents(s) = <<c>> /\ TurnOpened(s) = [o EXCEPT !.response_created_sent = TRUE]
    BY <1>2 DEF TurnEvents, TurnOpened
  <2>2. o \in ConnState /\ o.current_response_id # NoId
    BY <1>2, OpenResponseGood DEF Good, Coherent
  <2> HIDE DEF o
  <2>3. c \in Event /\ c.type = "response.created" /\ c.response = o.current_response_id
    <3>1. "response.created" \in EventTypes
      BY DEF EventTypes
    <3> QED  BY Zenon, <2>2, <3>1, EventFields
  <2>4. TurnOpened(s).current_response_id = o.current_response_id
    BY <2>1, <2>2 DEF ConnState
  <2>5. TurnOpened(s).response_created_sent = TRUE
    BY Zenon, <2>1, <2>2 DEF ConnState
  <2> HIDE DEF c
  <2>6. <<c>> \in Seq(Event) /\ ToSet(<<c>>) = {c}
    BY <2>3, OneEvent
  <2>7. TurnOpened(s).response_created_sent
    BY Zenon, <2>5
  <2> QED  BY <1>2, <2>1, <2>2, <2>3, <2>4, <2>6, <2>7
<1> QED  BY <1>1, <1>2

-----------------------------------------------------------------------------
(* What one handler does, whichever it is. *)

HandlerStep ==
  /\ Good(conn')
  /\ Kept(conn, conn') \/ Opened(conn, conn') \/ Ended(conn, conn')
  /\ conn'.next_response <= MaxResponses + 1
  /\ out' \in Seq(Event)
  /\ Says(conn, conn', ToSet(out'))
  /\ wire' = wire \cup {e \in ToSet(out') : e.type \in LifecycleTypes}

LEMMA ReturnStep ==
  ASSUME NEW t, NEW events,
         Good(t), Kept(conn, t) \/ Opened(conn, t) \/ Ended(conn, t),
         events \in Seq(Event), Says(conn, t, ToSet(events)),
         Return(t, events)
  PROVE  HandlerStep
BY DEF HandlerStep, Return

\* Events about the user, or none at all, say nothing of a response.
LEMMA UserEventSays ==
  ASSUME NEW s \in ConnState, NEW t, NEW u \in ConnState, ~Ended(s, t),
         NEW type \in EventTypes \ {"response.created", "response.done"}
  PROVE  /\ <<UserEvent(type, u)>> \in Seq(Event)
         /\ Says(s, t, ToSet(<<UserEvent(type, u)>>))
<1> DEFINE d == UserEvent(type, u)
<1>1. d \in Event /\ d.type = type /\ d.response = NoId
  BY Zenon, EventFields
<1> HIDE DEF d
<1>2. <<d>> \in Seq(Event) /\ ToSet(<<d>>) = {d}
  BY <1>1, OneEvent
<1> QED  BY <1>1, <1>2 DEF Says, d

LEMMA NotBoth ==
  ASSUME NEW s \in ConnState, NEW t, Kept(s, t) \/ Opened(s, t)
  PROVE  ~Ended(s, t)
BY DEF Kept, Opened, Ended

LEMMA RefuseStep ==
  ASSUME Good(conn), Refuse
  PROVE  HandlerStep
<1>1. conn \in ConnState
  BY DEF Good
<1>2. Return(conn, <<UserEvent("error", conn)>>)
  BY DEF Refuse
<1>3. Kept(conn, conn)
  BY DEF Kept
<1>4. "error" \in EventTypes \ {"response.created", "response.done"}
  BY DEF EventTypes
<1> QED  BY <1>1, <1>2, <1>3, <1>4, NotBoth, UserEventSays, ReturnStep

LEMMA CreateStep ==
  ASSUME Good(conn), HandleResponseCreate
  PROVE  HandlerStep
<1>0. conn \in ConnState
  BY DEF Good
<1>1. CASE Refuse
  BY <1>1, RefuseStep
<1>2. CASE ~conn.in_response /\ Return(TurnOpened(conn), TurnEvents(conn))
  <2> DEFINE t == TurnOpened(conn)
             events == TurnEvents(conn)
  <2>1. Return(t, events)
    BY <1>2
  <2>2. Good(t) /\ Opened(conn, t) /\ ~conn.response_created_sent
    BY <1>2, TurnOpenedGood DEF Good, Coherent
  <2>3. events \in Seq(Event)
        /\ \A e \in ToSet(events) :
              /\ e \in Event /\ e.type = "response.created"
              /\ e.response = t.current_response_id /\ e.response # NoId
              /\ t.response_created_sent
    BY TurnEventsSay
  <2> HIDE DEF t, events
  <2>4. ~Ended(conn, t)
    BY <1>0, <2>2, NotBoth
  <2>5. Says(conn, t, ToSet(events))
    BY <2>2, <2>3, <2>4 DEF Says
  <2> QED  BY <2>1, <2>2, <2>3, <2>5, ReturnStep
<1> QED  BY <1>1, <1>2 DEF HandleResponseCreate

LEMMA FinishSays ==
  ASSUME NEW s, Good(s), NEW t,
         s.in_response => Ended(s, t), ~s.in_response => Kept(s, t)
  PROVE  /\ FinishEvents(s) \in Seq(Event)
         /\ Says(s, t, ToSet(FinishEvents(s)))
<1>1. /\ FinishEvents(s) \in Seq(Event)
      /\ \A e \in ToSet(FinishEvents(s)) :
           /\ e \in Event /\ e.response = s.current_response_id
           /\ s.in_response /\ e.type # "response.created"
      /\ s.in_response => \E e \in ToSet(FinishEvents(s)) : e.type = "response.done"
  BY FinishEventsSay
<1>2. ~s.in_response => ~Ended(s, t)
  BY DEF Kept, Ended
<1> QED  BY <1>1, <1>2 DEF Says

LEMMA FinishStep ==
  ASSUME Good(conn), FinishAudioResponse
  PROVE  HandlerStep
<1> DEFINE t == Finished(conn)
           events == FinishEvents(conn)
<1>1. Return(t, events)
  BY DEF FinishAudioResponse
<1>2. /\ Good(t)
      /\ conn.in_response => Ended(conn, t)
      /\ ~conn.in_response => Kept(conn, t)
  BY FinishedGood DEF Kept
<1>3. events \in Seq(Event) /\ Says(conn, t, ToSet(events))
  BY <1>2, FinishSays
<1> QED  BY <1>1, <1>2, <1>3, ReturnStep

LEMMA SessionUpdateStep ==
  ASSUME Good(conn), HandleSessionUpdate
  PROVE  HandlerStep
<1>0. conn \in ConnState
  BY DEF Good
<1> SUFFICES ASSUME ~Refuse  PROVE HandlerStep
  BY RefuseStep
<1>1. PICK mode \in InterruptModes :
        Return([conn EXCEPT !.interrupt_response = mode],
               <<UserEvent("session.updated", conn)>>)
  BY DEF HandleSessionUpdate
<1> DEFINE t == [conn EXCEPT !.interrupt_response = mode]
<1>2. mode \in BOOLEAN
  BY ModesAssumption
<1>3. t \in ConnState
  BY <1>0, <1>2, FieldUpdate
<1>4. /\ t.in_response = conn.in_response
      /\ t.response_created_sent = conn.response_created_sent
      /\ t.output_item_added = conn.output_item_added
  BY Zenon, <1>0 DEF ConnState
<1>5. /\ t.current_response_id = conn.current_response_id
      /\ t.current_item_id = conn.current_item_id
      /\ t.next_response = conn.next_response
      /\ t.next_item = conn.next_item
  BY <1>0 DEF ConnState
<1>6. Return(t, <<UserEvent("session.updated", conn)>>)
  BY <1>1
<1> HIDE DEF t
<1>7. Good(t)
  BY Zenon, <1>3, <1>4, <1>5 DEF Good, Coherent
<1>8. Kept(conn, t)
  BY Zenon, <1>4, <1>5 DEF Kept
<1>9. "session.updated" \in EventTypes \ {"response.created", "response.done"}
  BY DEF EventTypes
<1> QED  BY <1>0, <1>6, <1>7, <1>8, <1>9, NotBoth, UserEventSays, ReturnStep

LEMMA SpeechStoppedStep ==
  ASSUME Good(conn), OnSpeechStopped
  PROVE  HandlerStep
<1> DEFINE t == CurrentItem(conn)
<1>1. Return(t, <<UserEvent("speech_stopped", t)>>)
  BY DEF OnSpeechStopped
<1>2. Good(t) /\ Kept(conn, t)
  BY CurrentItemGood
<1> HIDE DEF t
<1>3. conn \in ConnState /\ t \in ConnState
  BY <1>2 DEF Good
<1>4. "speech_stopped" \in EventTypes \ {"response.created", "response.done"}
  BY DEF EventTypes
<1> QED  BY <1>1, <1>2, <1>3, <1>4, NotBoth, UserEventSays, ReturnStep

LEMMA PartialStep ==
  ASSUME Good(conn), OnPartialTranscription
  PROVE  HandlerStep
<1> DEFINE t == CurrentItem(conn)
<1>1. Return(t, <<UserEvent("transcription.delta", t)>>)
  BY DEF OnPartialTranscription
<1>2. Good(t) /\ Kept(conn, t)
  BY CurrentItemGood
<1> HIDE DEF t
<1>3. conn \in ConnState /\ t \in ConnState
  BY <1>2 DEF Good
<1>4. "transcription.delta" \in EventTypes \ {"response.created", "response.done"}
  BY DEF EventTypes
<1> QED  BY <1>1, <1>2, <1>3, <1>4, NotBoth, UserEventSays, ReturnStep

\* Two lists of events one after the other say what each of them says.
LEMMA SaysConcat ==
  ASSUME NEW s, NEW t, NEW f \in Seq(Event), NEW g \in Seq(Event),
         NEW E, E = ToSet(f) \cup ToSet(g), Says(s, t, E)
  PROVE  f \o g \in Seq(Event) /\ Says(s, t, ToSet(f \o g))
BY ToSetConcat

LEMMA SpeechStartedStep ==
  ASSUME Good(conn), OnSpeechStarted
  PROVE  HandlerStep
<1> DEFINE cancels == conn.in_response /\ conn.interrupt_response
           ended == IF cancels THEN Finished(conn) ELSE conn
           t == StartItem(ended)
           closing == IF cancels THEN FinishEvents(conn) ELSE << >>
           d == UserEvent("speech_started", t)
<1>1. Return(t, closing \o <<d>>)
  BY DEF OnSpeechStarted
<1>2. /\ Good(ended)
      /\ cancels => Ended(conn, ended)
      /\ ~cancels => Kept(conn, ended)
  BY FinishedGood DEF Kept
<1>3. /\ Good(t)
      /\ cancels => Ended(conn, t)
      /\ ~cancels => Kept(conn, t)
  <2> HIDE DEF ended
  <2>1. Good(t) /\ Kept(ended, t)
    BY <1>2, StartItemGood
  <2> HIDE DEF t
  <2> QED  BY <1>2, <2>1 DEF Kept, Ended
<1>4. /\ closing \in Seq(Event)
      /\ Says(conn, t, ToSet(closing))
  <2>1. CASE cancels
    <3> HIDE DEF t
    <3>1. closing = FinishEvents(conn) /\ conn.in_response
      BY <2>1
    <3>2. Ended(conn, t)
      BY <1>3, <2>1
    <3> QED  BY <3>1, <3>2, FinishSays
  <2>2. CASE ~cancels
    <3> HIDE DEF t
    <3>1. closing = << >> /\ conn \in ConnState /\ Kept(conn, t)
      BY <1>3, <2>2 DEF Good
    <3>2. ~Ended(conn, t)
      BY <3>1, NotBoth
    <3> QED  BY <3>1, <3>2, NoEvents DEF Says
  <2> QED  BY <2>1, <2>2
<1>5. /\ <<d>> \in Seq(Event) /\ ToSet(<<d>>) = {d}
      /\ d \in Event /\ d.response = NoId /\ d.type = "speech_started"
  <2> HIDE DEF t
  <2>1. t \in ConnState
    BY <1>3 DEF Good
  <2>2. "speech_started" \in EventTypes
    BY DEF EventTypes
  <2>3. d \in Event /\ d.response = NoId /\ d.type = "speech_started"
    BY Zenon, <2>1, <2>2, EventFields
  <2> HIDE DEF d
  <2> QED  BY <2>3, OneEvent
<1> HIDE DEF d, closing, t
<1>6. Says(conn, t, ToSet(closing) \cup {d})
  BY <1>4, <1>5 DEF Says
<1>7. closing \o <<d>> \in Seq(Event) /\ Says(conn, t, ToSet(closing \o <<d>>))
  BY <1>4, <1>5, <1>6, SaysConcat
<1> QED  BY <1>1, <1>3, <1>7, ReturnStep

LEMMA TranscriptionStep ==
  ASSUME Good(conn), OnTranscriptionCompleted
  PROVE  HandlerStep
<1> DEFINE s == CurrentItem(conn)
           d == UserEvent("transcription.completed", s)
           t == TurnOpened(s)
           opening == TurnEvents(s)
<1>1. \/ Return(s, <<d>>)
      \/ Return(t, <<d>> \o opening)
  BY DEF OnTranscriptionCompleted
<1>2. /\ Good(s) /\ Kept(conn, s)
      /\ s.in_response = conn.in_response
      /\ s.response_created_sent = conn.response_created_sent
  BY CurrentItemGood
<1> HIDE DEF s
<1>3. conn \in ConnState /\ s \in ConnState
  BY <1>2 DEF Good
<1>4. "transcription.completed" \in EventTypes \ {"response.created", "response.done"}
  BY DEF EventTypes
<1>5. CASE Return(s, <<d>>)
  BY <1>2, <1>3, <1>4, <1>5, NotBoth, UserEventSays, ReturnStep
<1>6. CASE Return(t, <<d>> \o opening)
  <2>1. /\ Good(t)
        /\ IF s.in_response THEN t = s ELSE Opened(s, t)
    BY <1>2, TurnOpenedGood
  <2>2. /\ opening \in Seq(Event)
        /\ \A e \in ToSet(opening) :
              /\ e \in Event /\ e.type = "response.created"
              /\ e.response = t.current_response_id /\ e.response # NoId
              /\ ~s.in_response /\ t.response_created_sent
    BY <1>2, TurnEventsSay
  <2>3. d \in Event /\ d.type = "transcription.completed" /\ d.response = NoId
    BY Zenon, <1>3, <1>4, EventFields
  <2> HIDE DEF d, t, opening
  <2>4. Kept(conn, t) \/ Opened(conn, t)
    BY <1>2, <2>1 DEF Kept, Opened
  <2>5. ~Ended(conn, t)
    BY <1>3, <2>4, NotBoth
  <2>6. <<d>> \in Seq(Event) /\ ToSet(<<d>>) = {d}
    BY <2>3, OneEvent
  <2>7. ~conn.in_response => ~conn.response_created_sent
    BY DEF Good, Coherent
  <2>8. ~s.in_response => ~conn.response_created_sent
    BY Zenon, <1>2, <2>7
  <2>9. Says(conn, t, {d} \cup ToSet(opening))
    BY <2>2, <2>3, <2>5, <2>8 DEF Says
  <2>10. /\ <<d>> \o opening \in Seq(Event)
         /\ Says(conn, t, ToSet(<<d>> \o opening))
    BY <2>2, <2>6, <2>9, SaysConcat
  <2> QED  BY <1>6, <2>1, <2>4, <2>10, ReturnStep
<1> QED  BY <1>1, <1>5, <1>6

\* What assistant output makes of the connection: _ensure_response opens a
\* response if there is none, and a later announcement keeps it.
LEMMA EnsureStep ==
  ASSUME Good(conn), NEW t, t = EnsureResponse(conn) \/ t = Announced(EnsureResponse(conn))
  PROVE  /\ Good(EnsureResponse(conn))
         /\ Good(t)
         /\ Kept(conn, t) \/ Opened(conn, t)
         /\ ~Ended(conn, t)
         /\ t.current_response_id = EnsureResponse(conn).current_response_id
         /\ t.current_response_id # NoId
         /\ EnsureResponse(conn).response_created_sent = conn.response_created_sent
<1> DEFINE e == EnsureResponse(conn)
<1>1. /\ Good(e)
      /\ Kept(conn, e) \/ Opened(conn, e)
      /\ e.in_response /\ e.current_item_id # NoId
      /\ e.response_created_sent = conn.response_created_sent
  BY EnsureResponseGood
<1> HIDE DEF e
<1>2. e.current_response_id # NoId
  BY <1>1 DEF Good, Coherent
<1>3. conn \in ConnState
  BY DEF Good
<1>4. CASE t = e
  BY <1>1, <1>2, <1>3, <1>4, NotBoth DEF e
<1>5. CASE t = Announced(e)
  <2>1. /\ Good(t) /\ t.current_response_id = e.current_response_id
        /\ t.next_response = e.next_response /\ t.response_created_sent
    BY <1>1, <1>5, AnnouncedGood
  <2>2. Kept(conn, t) \/ Opened(conn, t)
    BY <1>1, <2>1 DEF Kept, Opened
  <2> QED  BY <1>1, <1>2, <1>3, <2>1, <2>2, NotBoth DEF e
<1> QED  BY <1>4, <1>5 DEF e

\* Announcing the response and then one more event of it.
LEMMA BeginSays ==
  ASSUME Good(conn), NEW type \in EventTypes \ {"response.created", "response.done"}
  PROVE  LET e == EnsureResponse(conn)
             t == Announced(e)
             events == BeginEvents(e) \o <<ItemEvent(type, e)>>
         IN events \in Seq(Event) /\ Says(conn, t, ToSet(events))
<1> DEFINE e == EnsureResponse(conn)
           t == Announced(e)
           d == ItemEvent(type, e)
           begin == BeginEvents(e)
<1>1. /\ Good(e) /\ Good(t) /\ ~Ended(conn, t)
      /\ t.current_response_id = e.current_response_id /\ t.current_response_id # NoId
      /\ e.response_created_sent = conn.response_created_sent
  BY EnsureStep
<1>2. e \in ConnState
  BY <1>1 DEF Good
<1>3. t.response_created_sent
  <2> HIDE DEF e
  <2> QED  BY Zenon, <1>2, AnnouncedFields
<1> HIDE DEF e
<1>4. /\ begin \in Seq(Event)
      /\ \A b \in ToSet(begin) :
           /\ b \in Event /\ b.response = e.current_response_id
           /\ b.type # "response.done"
           /\ b.type = "response.created" => ~e.response_created_sent
  BY <1>2, BeginEventsSay
<1>5. d \in Event /\ d.type = type /\ d.response = e.current_response_id
  BY Zenon, <1>2, EventFields
<1> HIDE DEF d, t, begin
<1>6. <<d>> \in Seq(Event) /\ ToSet(<<d>>) = {d}
  BY <1>5, OneEvent
<1>7. ~e.response_created_sent => ~conn.response_created_sent
  BY Zenon, <1>1
<1>8. Says(conn, t, ToSet(begin) \cup {d})
  BY <1>1, <1>3, <1>4, <1>5, <1>7 DEF Says
<1>9. begin \o <<d>> \in Seq(Event) /\ Says(conn, t, ToSet(begin \o <<d>>))
  BY <1>4, <1>6, <1>8, SaysConcat
<1> QED  BY <1>9 DEF d, t, begin, e

LEMMA AudioChunkStep ==
  ASSUME Good(conn), EncodeAudioChunk
  PROVE  HandlerStep
<1> DEFINE e == EnsureResponse(conn)
           t == Announced(e)
           events == BeginEvents(e) \o <<ItemEvent("output_audio.delta", e)>>
<1>1. Return(t, events)
  BY DEF EncodeAudioChunk
<1>2. "output_audio.delta" \in EventTypes \ {"response.created", "response.done"}
  BY DEF EventTypes
<1>3. events \in Seq(Event) /\ Says(conn, t, ToSet(events))
  BY <1>2, BeginSays
<1>4. Good(t) /\ (Kept(conn, t) \/ Opened(conn, t))
  BY EnsureStep
<1> QED  BY <1>1, <1>3, <1>4, ReturnStep

LEMMA AssistantTextStep ==
  ASSUME Good(conn), OnAssistantText
  PROVE  HandlerStep
<1> DEFINE e == EnsureResponse(conn)
           t == Announced(e)
           spoken == BeginEvents(e) \o <<ItemEvent("transcript.done", e)>>
           call == ItemEvent("function_call_arguments.done", e)
<1>1. PICK text \in BOOLEAN, tools \in BOOLEAN :
        LET calls == IF tools THEN <<call>> ELSE << >> IN
        IF text THEN Return(t, spoken \o calls) ELSE Return(e, calls)
  BY DEF OnAssistantText
<1> DEFINE calls == IF tools THEN <<call>> ELSE << >>
<1>2. IF text THEN Return(t, spoken \o calls) ELSE Return(e, calls)
  BY <1>1
<1>3. /\ Good(e) /\ ~Ended(conn, e)
      /\ Kept(conn, e) \/ Opened(conn, e)
      /\ Good(t) /\ ~Ended(conn, t)
      /\ Kept(conn, t) \/ Opened(conn, t)
      /\ t.current_response_id = e.current_response_id
  BY EnsureStep
<1>4. spoken \in Seq(Event) /\ Says(conn, t, ToSet(spoken))
  <2>1. "transcript.done" \in EventTypes \ {"response.created", "response.done"}
    BY DEF EventTypes
  <2> QED  BY <2>1, BeginSays
<1>5. /\ call \in Event /\ call.type = "function_call_arguments.done"
      /\ call.response = e.current_response_id
  <2> HIDE DEF e
  <2>1. "function_call_arguments.done" \in EventTypes
    BY DEF EventTypes
  <2> QED  BY Zenon, <1>3, <2>1, EventFields DEF Good
<1> HIDE DEF e, t, spoken, call
<1>6. /\ calls \in Seq(Event)
      /\ ToSet(calls) \subseteq {call}
  BY <1>5, OneEvent, NoEvents
<1> HIDE DEF calls
<1>7. CASE text
  <2>1. Says(conn, t, ToSet(spoken) \cup ToSet(calls))
    BY <1>3, <1>4, <1>5, <1>6 DEF Says
  <2>2. spoken \o calls \in Seq(Event) /\ Says(conn, t, ToSet(spoken \o calls))
    BY <1>4, <1>6, <2>1, SaysConcat
  <2> QED  BY <1>2, <1>3, <1>7, <2>2, ReturnStep
<1>8. CASE ~text
  <2>1. Says(conn, e, ToSet(calls))
    BY <1>3, <1>5, <1>6 DEF Says
  <2> QED  BY <1>2, <1>3, <1>6, <1>8, <2>1, ReturnStep
<1> QED  BY <1>7, <1>8

LEMMA NextStep ==
  ASSUME Good(conn), Next
  PROVE  HandlerStep
BY CreateStep, FinishStep, SessionUpdateStep, SpeechStartedStep, SpeechStoppedStep,
   PartialStep, TranscriptionStep, AssistantTextStep, AudioChunkStep DEF Next

-----------------------------------------------------------------------------
(* The inductive invariant.  WireInv ties the history of events to the      *)
(* connection: no event names a response not yet generated, a closed        *)
(* response is not the one in progress, and the one in progress is marked   *)
(* as announced if its response.created is out.                             *)

WireInv ==
  /\ wire \subseteq Event
  /\ \A e \in wire : e.response < conn.next_response
  /\ \A e \in wire : e.type = "response.done" =>
       e.response # NoId /\ e.response # conn.current_response_id
  /\ \A e \in wire : e.type = "response.created" =>
       /\ e.response # NoId
       /\ e.response = conn.current_response_id => conn.response_created_sent

IInv == TypeOK /\ ConnCoherent /\ WireInv

LEMMA GoodConn == TypeOK /\ ConnCoherent <=> TypeOK /\ Good(conn)
BY DEF TypeOK, ConnCoherent, Good, Coherent

LEMMA InitInv == Init => IInv
<1> SUFFICES ASSUME Init PROVE IInv
  OBVIOUS
<1>1. PICK mode \in InterruptModes : conn = NewConn(mode)
  BY DEF Init
<1>2. mode \in BOOLEAN
  BY ModesAssumption
<1>3. conn \in ConnState
  BY <1>1, <1>2 DEF ConnState, NewConn, NoId
<1>4. /\ conn.in_response = FALSE /\ conn.response_created_sent = FALSE
      /\ conn.output_item_added = FALSE
      /\ conn.current_response_id = NoId /\ conn.current_item_id = NoId
  BY Zenon, <1>1 DEF NewConn
<1>5. conn.next_response = 1 /\ conn.next_item = 1
  BY <1>1 DEF NewConn
<1>6. /\ conn.current_response_id < conn.next_response
      /\ conn.current_item_id < conn.next_item
  BY <1>4, <1>5 DEF NoId
<1>7. ConnCoherent
  BY Zenon, <1>4, <1>6 DEF ConnCoherent
<1>8. TypeOK
  BY <1>3 DEF Init, TypeOK, NoId
<1>9. WireInv
  BY DEF Init, WireInv
<1> QED  BY <1>7, <1>8, <1>9 DEF IInv

LEMMA SpeechItemType ==
  ASSUME TypeOK, Next, conn' \in ConnState
  PROVE  speechItem' \in Nat
<1>1. CASE OnSpeechStarted
  <2> DEFINE s == StartItem(IF conn.in_response /\ conn.interrupt_response
                            THEN Finished(conn) ELSE conn)
  <2>1. conn' = s /\ speechItem' = s.current_item_id
    BY <1>1 DEF OnSpeechStarted, Return
  <2> QED  BY <2>1, ConnFieldTypes
<1>2. CASE OnSpeechStopped
  BY <1>2 DEF OnSpeechStopped, NoId
<1>3. CASE UNCHANGED speechItem
  BY <1>3 DEF TypeOK
<1> QED
  BY <1>1, <1>2, <1>3
  DEF Next, HandleResponseCreate, FinishAudioResponse, HandleSessionUpdate,
      OnPartialTranscription, OnTranscriptionCompleted, OnAssistantText, EncodeAudioChunk

LEMMA WireStep ==
  ASSUME IInv, HandlerStep
  PROVE  WireInv'
<1> DEFINE s == conn
           t == conn'
           said == ToSet(out')
<1>1. Good(s) /\ Good(t) /\ Says(s, t, said)
      /\ wire' = wire \cup {e \in said : e.type \in LifecycleTypes}
  BY GoodConn DEF IInv, HandlerStep
<1>2. /\ s.current_response_id \in Nat /\ s.next_response \in Nat
      /\ t.current_response_id \in Nat /\ t.next_response \in Nat
      /\ t.next_response \in Nat \ {0}
      /\ s.current_response_id < s.next_response
      /\ t.current_response_id < t.next_response
  BY <1>1, ConnFieldTypes DEF Good, Coherent
<1>3. Kept(s, t) \/ Opened(s, t) \/ Ended(s, t)
  BY DEF HandlerStep
<1>4. /\ s.next_response <= t.next_response
      /\ t.current_response_id \in {NoId, s.current_response_id, s.next_response}
  BY <1>2, <1>3 DEF Kept, Opened, Ended
<1>5. wire' \subseteq Event
  BY <1>1 DEF IInv, WireInv, Says
<1>6. ASSUME NEW e \in wire'
      PROVE  e.response < t.next_response
  <2>1. CASE e \in wire
    <3>1. e.response \in Nat /\ e.response < s.next_response
      BY <2>1 DEF IInv, WireInv, Event
    <3> QED  BY <1>2, <1>4, <3>1
  <2>2. CASE e \in said
    <3>1. e.response \in {NoId, s.current_response_id, t.current_response_id}
      BY <1>1, <2>2 DEF Says
    <3> QED  BY <1>2, <1>4, <3>1 DEF NoId
  <2> QED  BY <1>1, <2>1, <2>2
<1>7. ASSUME NEW e \in wire', e.type = "response.done"
      PROVE  e.response # NoId /\ e.response # t.current_response_id
  <2>1. CASE e \in wire
    <3>1. /\ e.response \in Nat /\ e.response < s.next_response
          /\ e.response # NoId /\ e.response # s.current_response_id
      BY <1>7, <2>1 DEF IInv, WireInv, Event
    <3> QED  BY <1>2, <1>4, <3>1
  <2>2. CASE e \in said
    BY <1>1, <1>7, <2>2 DEF Says, Ended
  <2> QED  BY <1>1, <2>1, <2>2
<1>8. ASSUME NEW e \in wire', e.type = "response.created"
      PROVE  /\ e.response # NoId
             /\ e.response = t.current_response_id => t.response_created_sent
  <2>1. CASE e \in wire
    <3>1. /\ e.response \in Nat /\ e.response < s.next_response
          /\ e.response # NoId
      BY <1>8, <2>1 DEF IInv, WireInv, Event
    <3>2. e.response = s.current_response_id => s.response_created_sent
      BY <1>8, <2>1 DEF IInv, WireInv
    <3>3. e.response = t.current_response_id => Kept(s, t)
      BY <1>2, <1>3, <3>1 DEF Opened, Ended
    <3> QED  BY Zenon, <3>1, <3>2, <3>3 DEF Kept
  <2>2. CASE e \in said
    BY <1>1, <1>8, <2>2 DEF Says
  <2> QED  BY <1>1, <2>1, <2>2
<1> QED  BY <1>5, <1>6, <1>7, <1>8 DEF WireInv

LEMMA StepInv == IInv /\ [Next]_vars => IInv'
<1> SUFFICES ASSUME IInv, [Next]_vars PROVE IInv'
  OBVIOUS
<1>1. CASE Next
  <2>1. HandlerStep
    BY <1>1, GoodConn, NextStep DEF IInv
  <2>2. Good(conn') /\ conn' \in ConnState /\ out' \in Seq(Event)
    BY <2>1 DEF HandlerStep, Good
  <2>3. WireInv'
    BY <2>1, WireStep
  <2>4. speechItem' \in Nat
    BY <1>1, <2>2, SpeechItemType DEF IInv
  <2>5. TypeOK'
    BY <2>2, <2>3, <2>4 DEF TypeOK, WireInv
  <2>6. ConnCoherent'
    BY <2>2 DEF ConnCoherent, Good, Coherent
  <2> QED  BY <2>3, <2>5, <2>6 DEF IInv
<1>2. CASE UNCHANGED vars
  BY <1>2 DEF IInv, TypeOK, ConnCoherent, WireInv, vars
<1> QED  BY <1>1, <1>2

-----------------------------------------------------------------------------
(* The theorems. *)

\* The inductive invariant holds of every behaviour of the handlers.
THEOREM Invariance == Spec => []IInv
BY InitInv, StepInv, PTL DEF Spec

\* Type correctness, for every bound and every set of interrupt modes.
THEOREM TypeCorrect == Spec => []TypeOK
<1>1. IInv => TypeOK
  BY DEF IInv
<1> QED  BY <1>1, Invariance, PTL

\* The flags by which the handlers decide whether a response is open never
\* disagree, in whatever order the handlers are called.
THEOREM Coherence == Spec => []ConnCoherent
<1>1. IInv => ConnCoherent
  BY DEF IInv
<1> QED  BY <1>1, Invariance, PTL

\* Facts about one step that the action properties share.
LEMMA StepFacts ==
  ASSUME IInv, Next
  PROVE  /\ conn.current_response_id \in Nat /\ conn.next_response \in Nat \ {0}
         /\ conn.current_response_id < conn.next_response
         /\ Kept(conn, conn') \/ Opened(conn, conn') \/ Ended(conn, conn')
         /\ Says(conn, conn', ToSet(out'))
         /\ conn'.next_response <= MaxResponses + 1
         /\ wire' = wire \cup {e \in ToSet(out') : e.type \in LifecycleTypes}
<1>1. Good(conn)
  BY GoodConn DEF IInv
<1>2. HandlerStep
  BY <1>1, NextStep
<1>3. conn \in ConnState /\ conn.current_response_id < conn.next_response
  BY <1>1 DEF Good, Coherent
<1> QED  BY <1>2, <1>3, ConnFieldTypes DEF HandlerStep

LEMMA DoneIdsFacts ==
  ASSUME IInv
  PROVE  \A r \in DoneIds : /\ r \in Nat /\ r # NoId
                            /\ r # conn.current_response_id
                            /\ r < conn.next_response
BY DEF DoneIds, IInv, WireInv, Event

LEMMA SilenceStep ==
  ASSUME IInv, Next
  PROVE  \A i \in DOMAIN out' : out'[i].response \notin DoneIds
<1> SUFFICES ASSUME NEW i \in DOMAIN out'
             PROVE  out'[i].response \notin DoneIds
  OBVIOUS
<1>1. out'[i] \in ToSet(out')
  BY DEF ToSet
<1>2. out'[i].response \in {NoId, conn.current_response_id, conn'.current_response_id}
  BY <1>1, StepFacts DEF Says
<1>3. conn'.current_response_id \in {NoId, conn.current_response_id, conn.next_response}
  BY StepFacts DEF Kept, Opened, Ended
<1>4. conn.next_response \notin DoneIds
  BY StepFacts, DoneIdsFacts
<1> QED  BY <1>2, <1>3, <1>4, DoneIdsFacts

\* No handler ever returns an event that names a response whose response.done
\* is out, whatever order client, pipeline and send loop call them in.
THEOREM SilenceAfterDone == Spec => NothingAfterDone
<1>1. IInv /\ [Next]_vars
        => [\A i \in DOMAIN out' : out'[i].response \notin DoneIds]_vars
  BY SilenceStep
<1> QED  BY <1>1, Invariance, PTL DEF Spec, NothingAfterDone

LEMMA CreatedStep ==
  ASSUME IInv, Next
  PROVE  \A i \in DOMAIN out' :
           out'[i].type = "response.created" => out'[i] \notin wire
<1> SUFFICES ASSUME NEW i \in DOMAIN out', out'[i].type = "response.created",
                    out'[i] \in wire
             PROVE  FALSE
  OBVIOUS
<1> DEFINE e == out'[i]
<1>1. e \in ToSet(out')
  BY DEF ToSet
<1>2. /\ e.response = conn'.current_response_id /\ e.response # NoId
      /\ ~conn.response_created_sent
  BY <1>1, StepFacts DEF Says
<1>3. /\ e.response \in Nat /\ e.response < conn.next_response
      /\ e.response = conn.current_response_id => conn.response_created_sent
  BY DEF IInv, WireInv, Event
<1>4. e.response # conn.current_response_id
  BY Zenon, <1>2, <1>3
<1> QED  BY <1>2, <1>3, <1>4, StepFacts DEF Kept, Opened, Ended

\* response.created of a response is returned once, whichever path opens it.
THEOREM AnnouncedOnce == Spec => CreatedOnce
<1>1. IInv /\ [Next]_vars
        => [\A i \in DOMAIN out' :
              out'[i].type = "response.created" => out'[i] \notin wire]_vars
  BY CreatedStep
<1> QED  BY <1>1, Invariance, PTL DEF Spec, CreatedOnce

-----------------------------------------------------------------------------
(* Refinement. *)

LEMMA DoneIdsStep ==
  ASSUME IInv, Next
  PROVE  /\ Ended(conn, conn') => DoneIds' = DoneIds \cup {conn.current_response_id}
         /\ ~Ended(conn, conn') => DoneIds' = DoneIds
<1>1. DoneIds' = DoneIds \cup {e.response : e \in {d \in ToSet(out') : d.type = "response.done"}}
  <2>1. \A e \in ToSet(out') : e.type = "response.done" => e.type \in LifecycleTypes
    BY DEF LifecycleTypes
  <2>2. {w \in wire' : w.type = "response.done"}
          = {w \in wire : w.type = "response.done"}
            \cup {d \in ToSet(out') : d.type = "response.done"}
    BY <2>1, StepFacts
  <2> QED  BY <2>2 DEF DoneIds
<1>2. ASSUME NEW d \in ToSet(out'), d.type = "response.done"
      PROVE  Ended(conn, conn') /\ d.response = conn.current_response_id
  BY <1>2, StepFacts DEF Says
<1>3. Ended(conn, conn') => \E d \in ToSet(out') : d.type = "response.done"
  BY StepFacts DEF Says
<1> QED  BY <1>1, <1>2, <1>3

LEMMA LifecycleStep ==
  ASSUME IInv, Next
  PROVE  [Lifecycle!LifecycleNext]_(Lifecycle!lifecycleVars)
<1>1. CASE Kept(conn, conn')
  <2>1. ~Ended(conn, conn')
    BY <1>1 DEF Kept, Ended
  <2> QED  BY <1>1, <2>1, DoneIdsStep DEF Kept, Lifecycle!lifecycleVars
<1>2. CASE Opened(conn, conn')
  <2> DEFINE r == conn.next_response
  <2>1. ~Ended(conn, conn') /\ DoneIds' = DoneIds
    <3>1. conn'.current_response_id # NoId
      BY <1>2, StepFacts DEF Opened, NoId
    <3> QED  BY <3>1, DoneIdsStep DEF Ended
  <2>2. r \in 1..MaxResponses
    BY <1>2, StepFacts, BoundsAssumption DEF Opened
  <2>3. r \notin DoneIds
    BY StepFacts, DoneIdsFacts
  <2>4. Lifecycle!Open(r)
    BY <1>2, <2>1, <2>3 DEF Opened, Lifecycle!Open
  <2> QED  BY <2>2, <2>4 DEF Lifecycle!LifecycleNext
<1>3. CASE Ended(conn, conn')
  <2>1. Lifecycle!Close
    BY <1>3, DoneIdsStep DEF Ended, Lifecycle!Close
  <2> QED  BY <2>1 DEF Lifecycle!LifecycleNext
<1> QED  BY <1>1, <1>2, <1>3, StepFacts

\* The handlers implement the promise of ResponseLifecycle: at most one
\* response at a time, each opened once and closed once.
THEOREM Refinement == Spec => ImplementsLifecycle
<1>1. Init => Lifecycle!LifecycleInit
  <2> SUFFICES ASSUME Init PROVE Lifecycle!LifecycleInit
    OBVIOUS
  <2>1. DoneIds = {}
    BY DEF Init, DoneIds
  <2>2. conn.current_response_id = NoId
    BY DEF Init, NewConn
  <2> QED  BY <2>1, <2>2 DEF Lifecycle!LifecycleInit
<1>2. IInv /\ [Next]_vars => [Lifecycle!LifecycleNext]_(Lifecycle!lifecycleVars)
  <2>1. CASE Next
    BY <2>1, LifecycleStep
  <2>2. CASE UNCHANGED vars
    BY <2>2 DEF vars, DoneIds, Lifecycle!lifecycleVars
  <2> QED  BY <2>1, <2>2
<1> QED  BY <1>1, <1>2, Invariance, PTL DEF Spec, ImplementsLifecycle, Lifecycle!LifecycleSpec

-----------------------------------------------------------------------------
(* Which handlers end a response.                                           *)

EndsNothing == ~Ended(conn, conn')

LEMMA StaysOpen ==
  ASSUME Good(conn), NEW t, Kept(conn, t) \/ Opened(conn, t), conn' = t
  PROVE  EndsNothing
BY NotBoth DEF EndsNothing, Good

\* Only finish_audio_response, called for the end or by a barge-in, ends one.
LEMMA OthersEndNothing ==
  ASSUME Good(conn),
         \/ HandleResponseCreate \/ HandleSessionUpdate \/ OnSpeechStopped
         \/ OnPartialTranscription \/ OnTranscriptionCompleted
         \/ OnAssistantText \/ EncodeAudioChunk
         \/ (OnSpeechStarted /\ ~(conn.in_response /\ conn.interrupt_response))
  PROVE  EndsNothing
<1>1. CASE UNCHANGED conn
  BY <1>1, StaysOpen DEF Kept
<1>2. CASE HandleResponseCreate
  <2>1. CASE Refuse
    BY <1>1, <2>1 DEF Refuse, Return
  <2>2. CASE ~conn.in_response /\ conn' = TurnOpened(conn)
    BY <2>2, TurnOpenedGood, StaysOpen
  <2> QED  BY <1>2, <2>1, <2>2 DEF HandleResponseCreate, Return
<1>3. CASE HandleSessionUpdate
  <2>1. CASE Refuse
    BY <1>1, <2>1 DEF Refuse, Return
  <2>2. ASSUME NEW mode \in InterruptModes, conn' = [conn EXCEPT !.interrupt_response = mode]
        PROVE  EndsNothing
    BY <2>2 DEF EndsNothing, Ended, Good, ConnState
  <2> QED  BY <1>3, <2>1, <2>2 DEF HandleSessionUpdate, Return
<1>4. CASE OnSpeechStopped \/ OnPartialTranscription
  BY <1>4, CurrentItemGood, StaysOpen DEF OnSpeechStopped, OnPartialTranscription, Return
<1>5. CASE OnTranscriptionCompleted
  <2> DEFINE s == CurrentItem(conn)
  <2>1. /\ Good(s) /\ Kept(conn, s)
    BY CurrentItemGood
  <2>2. conn' = s \/ conn' = TurnOpened(s)
    BY <1>5 DEF OnTranscriptionCompleted, Return
  <2> HIDE DEF s
  <2>3. TurnOpened(s) = s \/ Opened(s, TurnOpened(s))
    BY <2>1, TurnOpenedGood
  <2>4. Kept(conn, TurnOpened(s)) \/ Opened(conn, TurnOpened(s))
    BY <2>1, <2>3 DEF Kept, Opened
  <2> QED  BY <2>1, <2>2, <2>4, StaysOpen
<1>6. CASE OnAssistantText \/ EncodeAudioChunk
  <2>1. conn' = EnsureResponse(conn) \/ conn' = Announced(EnsureResponse(conn))
    BY <1>6 DEF OnAssistantText, EncodeAudioChunk, Return
  <2> QED  BY <2>1, EnsureStep, StaysOpen
<1>7. CASE OnSpeechStarted /\ ~(conn.in_response /\ conn.interrupt_response)
  <2>1. conn' = StartItem(conn)
    BY <1>7 DEF OnSpeechStarted, Return
  <2> QED  BY <2>1, StartItemGood, StaysOpen
<1> QED  BY <1>2, <1>3, <1>4, <1>5, <1>6, <1>7

LEMMA EndingEnds ==
  ASSUME Good(conn), conn.in_response,
         FinishAudioResponse \/ (OnSpeechStarted /\ conn.interrupt_response)
  PROVE  Ended(conn, conn')
<1> DEFINE t == Finished(conn)
<1>1. Good(t) /\ Ended(conn, t)
  BY FinishedGood
<1>2. conn' = t \/ conn' = StartItem(t)
  BY DEF FinishAudioResponse, OnSpeechStarted, Return
<1> HIDE DEF t
<1>3. Kept(t, StartItem(t))
  BY <1>1, StartItemGood
<1> QED  BY <1>1, <1>2, <1>3 DEF Kept, Ended

-----------------------------------------------------------------------------
(* The items of a response: what a handler does to the current item, and    *)
(* what the events it returns say of items.                                  *)

\* The current item is kept, forgotten or a new one; a response that ends takes
\* its item with it; and where speech may interrupt, an announced item stays the
\* current one until then.
ItemMoves(s, t) ==
  /\ t.interrupt_response \in InterruptModes \cup {s.interrupt_response}
  /\ s.next_item <= t.next_item
  /\ t.current_item_id \in {NoId, s.current_item_id} \/ s.next_item <= t.current_item_id
  /\ Ended(s, t) => t.current_item_id = NoId \/ s.next_item <= t.current_item_id
  /\ (s.interrupt_response /\ s.output_item_added /\ ~Ended(s, t))
       => t.output_item_added /\ t.current_item_id = s.current_item_id

\* An item already announced, if any.
Unannounced(s, t) ==
  t.output_item_added => /\ s.output_item_added
                         /\ t.current_response_id = s.current_response_id
                         /\ t.current_item_id = s.current_item_id

LEMMA InterruptKept ==
  ASSUME NEW s \in ConnState
  PROVE  /\ StartItem(s).interrupt_response = s.interrupt_response
         /\ OpenResponse(s).interrupt_response = s.interrupt_response
         /\ EndResponse(s).interrupt_response = s.interrupt_response
         /\ Announced(s).interrupt_response = s.interrupt_response
<1>1. \A c \in ConnState : StartItem(c).interrupt_response = c.interrupt_response
  BY Zenon DEF ConnState, StartItem
<1>2. EndResponse(s).interrupt_response = s.interrupt_response
  BY Zenon DEF ConnState, EndResponse
<1>3. Announced(s).interrupt_response = s.interrupt_response
  BY Zenon DEF ConnState, Announced
<1>4. OpenResponse(s).interrupt_response = s.interrupt_response
  <2> DEFINE s1 == [s EXCEPT !.in_response = TRUE]
             s2 == [s1 EXCEPT !.current_response_id = s.next_response]
             s3 == [s2 EXCEPT !.next_response = s.next_response + 1]
  <2>1. s.next_response \in Nat
    BY DEF ConnState
  <2>2. s1 \in ConnState
    BY FieldUpdate
  <2>3. s2 \in ConnState
    BY <2>1, <2>2, FieldUpdate
  <2>4. s3 \in ConnState
    BY <2>1, <2>3, FieldUpdate
  <2>5. s3.interrupt_response = s.interrupt_response
    BY Zenon DEF ConnState
  <2>6. OpenResponse(s) = StartItem(s3)
    BY DEF OpenResponse
  <2> HIDE DEF s3
  <2> QED  BY Zenon, <1>1, <2>4, <2>5, <2>6
<1> QED  BY <1>1, <1>2, <1>3, <1>4

\* A new item is announced anew.
LEMMA StartItemMoves ==
  ASSUME NEW s, Good(s)
  PROVE  LET t == StartItem(s) IN
         /\ t.interrupt_response = s.interrupt_response
         /\ t.next_item = s.next_item + 1 /\ s.next_item \in Nat
         /\ t.current_item_id = s.next_item
         /\ ~t.output_item_added
         /\ Unannounced(s, t)
         /\ ~s.output_item_added => ItemMoves(s, t)
<1> DEFINE t == StartItem(s)
<1>0. s \in ConnState
  BY DEF Good
<1>1. /\ t.next_item = s.next_item + 1 /\ s.next_item \in Nat
      /\ t.current_item_id = s.next_item
  BY <1>0, StartItemFields, ConnFieldTypes
<1>2. ~t.output_item_added
  BY Zenon, <1>0, StartItemFields
<1>3. t.interrupt_response = s.interrupt_response
  BY Zenon, <1>0, InterruptKept
<1> HIDE DEF t
<1>4. ~s.output_item_added => ItemMoves(s, t)
  BY <1>1, <1>3 DEF ItemMoves
<1>5. Unannounced(s, t)
  BY Zenon, <1>2 DEF Unannounced
<1> QED  BY Zenon, <1>1, <1>2, <1>3, <1>4, <1>5 DEF t

\* Nothing changes that concerns items.
LEMMA SameMoves ==
  ASSUME NEW s, Good(s)
  PROVE  ItemMoves(s, s) /\ Unannounced(s, s) /\ ~Ended(s, s)
<1>1. s.next_item \in Nat /\ ~Ended(s, s)
  BY ConnFieldTypes DEF Good, Ended
<1> QED  BY <1>1 DEF ItemMoves, Unannounced

LEMMA CurrentItemMoves ==
  ASSUME NEW s, Good(s)
  PROVE  LET t == CurrentItem(s) IN ItemMoves(s, t) /\ Unannounced(s, t)
<1>1. CASE s.current_item_id # NoId
  BY <1>1, SameMoves DEF CurrentItem
<1>2. CASE s.current_item_id = NoId
  <2>1. CurrentItem(s) = StartItem(s) /\ ~s.output_item_added
    BY <1>2 DEF CurrentItem, Good, Coherent
  <2> QED  BY <2>1, StartItemMoves
<1> QED  BY <1>1, <1>2

LEMMA OpenResponseMoves ==
  ASSUME NEW s, Good(s), ~s.in_response
  PROVE  LET t == OpenResponse(s) IN
         ItemMoves(s, t) /\ Unannounced(s, t) /\ ~t.output_item_added
<1> DEFINE t == OpenResponse(s)
<1>0. s \in ConnState /\ ~s.output_item_added
  BY DEF Good, Coherent
<1>1. /\ t.next_item = s.next_item + 1 /\ s.next_item \in Nat
      /\ t.current_item_id = s.next_item
  BY <1>0, OpenResponseFields, ConnFieldTypes
<1>2. ~t.output_item_added
  BY Zenon, <1>0, OpenResponseFields
<1>3. t.interrupt_response = s.interrupt_response
  BY Zenon, <1>0, InterruptKept
<1> HIDE DEF t
<1>4. ItemMoves(s, t)
  BY <1>0, <1>1, <1>3 DEF ItemMoves
<1>5. Unannounced(s, t)
  BY Zenon, <1>2 DEF Unannounced
<1> QED  BY Zenon, <1>2, <1>4, <1>5 DEF t

LEMMA EnsureResponseMoves ==
  ASSUME NEW s, Good(s)
  PROVE  LET t == EnsureResponse(s) IN ItemMoves(s, t) /\ Unannounced(s, t)
<1>1. CASE s.in_response
  <2>1. EnsureResponse(s) = CurrentItem(s)
    BY <1>1 DEF EnsureResponse, Good, Coherent
  <2> QED  BY <2>1, CurrentItemMoves
<1>2. CASE ~s.in_response
  <2> DEFINE o == OpenResponse(s)
  <2>1. EnsureResponse(s) = CurrentItem(o)
    BY <1>2 DEF EnsureResponse, Good, Coherent
  <2>2. CurrentItem(o) = o
    BY <1>2, OpenResponseGood, CurrentItemGood
  <2> QED  BY <1>2, <2>1, <2>2, OpenResponseMoves
<1> QED  BY <1>1, <1>2

LEMMA TurnOpenedMoves ==
  ASSUME NEW s, Good(s)
  PROVE  LET t == TurnOpened(s) IN ItemMoves(s, t) /\ Unannounced(s, t)
<1>1. CASE s.in_response
  BY <1>1, SameMoves DEF TurnOpened
<1>2. CASE ~s.in_response
  <2> DEFINE o == OpenResponse(s)
             t == [o EXCEPT !.response_created_sent = TRUE]
  <2>1. /\ ItemMoves(s, o) /\ ~o.output_item_added
        /\ Good(o) /\ Opened(s, o)
    BY <1>2, OpenResponseMoves, OpenResponseGood
  <2>2. TurnOpened(s) = t
    BY <1>2 DEF TurnOpened
  <2> HIDE DEF o
  <2>3. o \in ConnState
    BY <2>1 DEF Good
  <2>4. /\ t.output_item_added = o.output_item_added
        /\ t.interrupt_response = o.interrupt_response
    BY Zenon, <2>3 DEF ConnState
  <2>5. /\ t.current_response_id = o.current_response_id
        /\ t.next_response = o.next_response
        /\ t.current_item_id = o.current_item_id
        /\ t.next_item = o.next_item
    BY <2>3 DEF ConnState
  <2> HIDE DEF t
  <2>6. ~t.output_item_added
    BY Zenon, <2>1, <2>4
  <2>7. Ended(s, t) <=> Ended(s, o)
    BY <2>5 DEF Ended
  <2>8. ~s.output_item_added
    BY <1>2 DEF Good, Coherent
  <2>9. ItemMoves(s, t)
    BY Zenon, <2>1, <2>4, <2>5, <2>7, <2>8 DEF ItemMoves
  <2>10. Unannounced(s, t)
    BY Zenon, <2>6 DEF Unannounced
  <2> QED  BY Zenon, <2>2, <2>9, <2>10
<1> QED  BY <1>1, <1>2

LEMMA FinishedMoves ==
  ASSUME NEW s, Good(s)
  PROVE  LET t == Finished(s) IN
         /\ ItemMoves(s, t)
         /\ s.in_response => ~t.output_item_added /\ t.current_item_id = NoId
<1>1. CASE ~s.in_response
  BY <1>1, SameMoves DEF Finished
<1>2. CASE s.in_response
  <2> DEFINE e == EnsureResponse(s)
             t == EndResponse(e)
  <2>1. Finished(s) = t
    BY <1>2 DEF Finished
  <2>2. Good(e) /\ ItemMoves(s, e)
    BY EnsureResponseGood, EnsureResponseMoves
  <2> HIDE DEF e
  <2>3. e \in ConnState /\ s \in ConnState
    BY <2>2 DEF Good
  <2>4. t.current_item_id = NoId /\ t.next_item = e.next_item
    BY <2>3, EndResponseFields
  <2>5. ~t.output_item_added
    BY Zenon, <2>3, EndResponseFields
  <2>6. t.interrupt_response = e.interrupt_response
    BY Zenon, <2>3, InterruptKept
  <2> HIDE DEF t
  <2>7. Ended(s, t)
    BY <1>2, <2>1, FinishedGood DEF t
  <2>8. ItemMoves(s, t)
    BY Zenon, <2>2, <2>4, <2>6, <2>7 DEF ItemMoves
  <2> QED  BY Zenon, <2>1, <2>4, <2>5, <2>8
<1> QED  BY <1>1, <1>2

-----------------------------------------------------------------------------
(* The order of the events of one handler. *)

\* ProtocolOrder, of any list of events.
Ordered(f) ==
  \A i, j \in DOMAIN f :
    (i < j /\ f[i].response # NoId /\ f[i].response = f[j].response)
      => Rank(f[i].type) <= Rank(f[j].type)

Ranked(f, lo, hi) ==
  /\ f \in Seq(Event) /\ Ordered(f)
  /\ \A e \in ToSet(f) : e.response # NoId => Rank(e.type) \in lo..hi

LEMMA Ranks ==
  /\ Rank("response.created") = 1
  /\ Rank("output_item.added") = 2 /\ Rank("content_part.added") = 2
  /\ Rank("output_audio.delta") = 3 /\ Rank("transcript.done") = 3
  /\ Rank("output_audio.done") = 3 /\ Rank("function_call_arguments.done") = 3
  /\ Rank("content_part.done") = 4 /\ Rank("output_item.done") = 4
  /\ Rank("response.done") = 5
BY DEF Rank

LEMMA RankedNone ==
  ASSUME NEW k
  PROVE  Ranked(<< >>, k, k)
BY NoEvents DEF Ranked, Ordered

LEMMA RankedOne ==
  ASSUME NEW e \in Event, NEW k \in Nat, e.response # NoId => Rank(e.type) = k
  PROVE  Ranked(<<e>>, k, k)
<1>1. <<e>> \in Seq(Event) /\ ToSet(<<e>>) = {e}
  BY OneEvent
<1>2. Ordered(<<e>>)
  BY DEF Ordered
<1> QED  BY <1>1, <1>2 DEF Ranked

LEMMA RankedConcat ==
  ASSUME NEW f, NEW g, NEW a \in Nat, NEW b \in Nat, NEW c \in Nat, NEW d \in Nat,
         Ranked(f, a, b), Ranked(g, c, d), a <= b, b <= c, c <= d
  PROVE  Ranked(f \o g, a, d) /\ ToSet(f \o g) = ToSet(f) \cup ToSet(g)
<1> DEFINE h == f \o g
<1>1. /\ f \in Seq(Event) /\ g \in Seq(Event)
      /\ \A e \in ToSet(f) : e.response # NoId => Rank(e.type) \in a..b
      /\ \A e \in ToSet(g) : e.response # NoId => Rank(e.type) \in c..d
  BY DEF Ranked
<1>2. h \in Seq(Event) /\ ToSet(h) = ToSet(f) \cup ToSet(g)
  BY <1>1, ToSetConcat
<1>3. \A e \in ToSet(h) : e.response # NoId => Rank(e.type) \in a..d
  BY <1>1, <1>2
<1>4. ASSUME NEW i \in DOMAIN h, NEW j \in DOMAIN h,
             i < j, h[i].response # NoId, h[i].response = h[j].response
      PROVE  Rank(h[i].type) <= Rank(h[j].type)
  <2>1. /\ DOMAIN f = 1..Len(f) /\ DOMAIN g = 1..Len(g) /\ DOMAIN h = 1..Len(f) + Len(g)
        /\ Len(f) \in Nat /\ Len(g) \in Nat
        /\ \A m \in 1..Len(f) + Len(g) : h[m] = IF m <= Len(f) THEN f[m] ELSE g[m - Len(f)]
    BY <1>1, ConcatProperties
  <2> HIDE DEF h
  <2>2. CASE j <= Len(f)
    <3>1. i \in DOMAIN f /\ j \in DOMAIN f /\ h[i] = f[i] /\ h[j] = f[j]
      BY <1>4, <2>1, <2>2
    <3> QED  BY <1>4, <3>1 DEF Ranked, Ordered
  <2>3. CASE ~(i <= Len(f))
    <3>1. /\ i - Len(f) \in DOMAIN g /\ j - Len(f) \in DOMAIN g /\ i - Len(f) < j - Len(f)
          /\ h[i] = g[i - Len(f)] /\ h[j] = g[j - Len(f)]
      BY <1>4, <2>1, <2>3
    <3> QED  BY <1>4, <3>1 DEF Ranked, Ordered
  <2>4. CASE i <= Len(f) /\ ~(j <= Len(f))
    <3>1. i \in DOMAIN f /\ j - Len(f) \in DOMAIN g /\ h[i] = f[i] /\ h[j] = g[j - Len(f)]
      BY <1>4, <2>1, <2>4
    <3>2. h[i] \in ToSet(f) /\ h[j] \in ToSet(g)
      BY <3>1 DEF ToSet
    <3>3. Rank(h[i].type) \in a..b /\ Rank(h[j].type) \in c..d
      BY <1>1, <1>4, <3>2
    <3> QED  BY <3>3
  <2> QED  BY <2>2, <2>3, <2>4
<1>5. Ordered(h)
  BY <1>4 DEF Ordered
<1> QED  BY <1>2, <1>3, <1>5 DEF Ranked

LEMMA RankedTwo ==
  ASSUME NEW d \in Event, NEW e \in Event, NEW k \in Nat,
         Rank(d.type) = k, Rank(e.type) = k
  PROVE  Ranked(<<d, e>>, k, k)
<1>1. <<d, e>> \in Seq(Event) /\ ToSet(<<d, e>>) = {d, e}
  BY TwoEvents
<1>2. Ordered(<<d, e>>)
  <2>1. ASSUME NEW i \in 1..2, NEW j \in 1..2
        PROVE  Rank(<<d, e>>[i].type) <= Rank(<<d, e>>[j].type)
    <3>1. \A m \in 1..2 : <<d, e>>[m] = d \/ <<d, e>>[m] = e
      OBVIOUS
    <3> QED  BY <3>1
  <2> QED  BY <2>1 DEF Ordered
<1> QED  BY <1>1, <1>2 DEF Ranked

\* begin_output_item_events: the response before its item, the item if it is
\* not announced yet.
LEMMA BeginEventsItems ==
  ASSUME NEW s \in ConnState
  PROVE  /\ Ranked(BeginEvents(s), 1, 2)
         /\ \A e \in ToSet(BeginEvents(s)) :
              /\ e.type \in {"response.created", "output_item.added", "content_part.added"}
              /\ e.type \in {"output_item.added", "content_part.added"} =>
                   /\ ~s.output_item_added
                   /\ e.response = s.current_response_id /\ e.item = s.current_item_id
         /\ ~s.output_item_added =>
              \E e \in ToSet(BeginEvents(s)) : e.type = "output_item.added"
         /\ ~s.response_created_sent =>
              \E e \in ToSet(BeginEvents(s)) : e.type = "response.created"
<1> DEFINE c == ResponseEvent("response.created", s)
           o == ItemEvent("output_item.added", s)
           p == ItemEvent("content_part.added", s)
           created == IF s.response_created_sent THEN << >> ELSE <<c>>
           added   == IF s.output_item_added THEN << >> ELSE <<o, p>>
<1>1. BeginEvents(s) = created \o added
  BY DEF BeginEvents
<1>2. /\ c \in Event /\ c.type = "response.created"
      /\ o \in Event /\ o.type = "output_item.added" /\ o.response = s.current_response_id
      /\ p \in Event /\ p.type = "content_part.added" /\ p.response = s.current_response_id
  <2>1. {"response.created", "output_item.added", "content_part.added"} \subseteq EventTypes
    BY DEF EventTypes
  <2> QED  BY Zenon, <2>1, EventFields
<1>3. o.item = s.current_item_id /\ p.item = s.current_item_id
  BY DEF ItemEvent
<1> HIDE DEF c, o, p
<1>4. /\ Ranked(created, 1, 1) /\ \A e \in ToSet(created) : e.type = "response.created"
      /\ ~s.response_created_sent => c \in ToSet(created)
  <2>1. Ranked(<<c>>, 1, 1) /\ Ranked(<< >>, 1, 1)
    BY <1>2, Ranks, RankedOne, RankedNone
  <2>2. ToSet(<<c>>) = {c} /\ ToSet(<< >>) = {}
    BY <1>2, OneEvent, NoEvents
  <2> QED  BY <1>2, <2>1, <2>2
<1>5. /\ Ranked(added, 2, 2) /\ ToSet(added) \subseteq {o, p}
      /\ IF s.output_item_added THEN ToSet(added) = {} ELSE o \in ToSet(added)
  <2>1. Ranked(<<o, p>>, 2, 2) /\ Ranked(<< >>, 2, 2)
    BY <1>2, Ranks, RankedTwo, RankedNone
  <2>2. ToSet(<<o, p>>) = {o, p} /\ ToSet(<< >>) = {}
    BY <1>2, TwoEvents, NoEvents
  <2> QED  BY <2>1, <2>2
<1> HIDE DEF created, added
<1>6. /\ Ranked(created \o added, 1, 2)
      /\ ToSet(created \o added) = ToSet(created) \cup ToSet(added)
  BY <1>4, <1>5, RankedConcat
<1> QED  BY <1>1, <1>2, <1>3, <1>4, <1>5, <1>6

\* finish_audio_response closes the item if it was announced, and the response last.
LEMMA FinishEventsItems ==
  ASSUME NEW s, Good(s)
  PROVE  /\ Ranked(FinishEvents(s), 3, 5)
         /\ \A e \in ToSet(FinishEvents(s)) :
              /\ e.type \in {"output_audio.done", "content_part.done", "output_item.done",
                             "response.done"}
              /\ e.type \in {"content_part.done", "output_item.done"} =>
                   s.output_item_added /\ e.item = s.current_item_id
         /\ s.output_item_added =>
              \E e \in ToSet(FinishEvents(s)) : e.type = "output_item.done"
<1>1. CASE ~s.in_response
  <2>1. FinishEvents(s) = << >> /\ ~s.output_item_added
    BY <1>1 DEF FinishEvents, Good, Coherent
  <2>2. Ranked(<< >>, 3, 5)
    BY NoEvents DEF Ranked, Ordered
  <2> QED  BY <2>1, <2>2, NoEvents
<1>2. CASE s.in_response
  <2> DEFINE e == EnsureResponse(s)
             a == ItemEvent("output_audio.done", e)
             p == ItemEvent("content_part.done", e)
             o == ItemEvent("output_item.done", e)
             r == ResponseEvent("response.done", e)
             closing == IF e.output_item_added THEN <<p, o>> ELSE << >>
  <2>1. FinishEvents(s) = <<a>> \o closing \o <<r>>
    BY <1>2 DEF FinishEvents
  <2>2. e \in ConnState
    BY EnsureResponseGood DEF Good
  <2>3. /\ e.output_item_added => s.output_item_added /\ e.current_item_id = s.current_item_id
        /\ s.output_item_added => e.output_item_added
    <3>1. Unannounced(s, e)
      BY EnsureResponseMoves
    <3>2. s.output_item_added => e = s
      BY <1>2, CurrentItemGood DEF EnsureResponse, Good, Coherent
    <3> QED  BY Zenon, <3>1, <3>2 DEF Unannounced
  <2> HIDE DEF e
  <2>4. /\ a \in Event /\ a.type = "output_audio.done"
        /\ p \in Event /\ p.type = "content_part.done"
        /\ o \in Event /\ o.type = "output_item.done"
        /\ r \in Event /\ r.type = "response.done"
    <3>1. {"output_audio.done", "content_part.done", "output_item.done",
           "response.done"} \subseteq EventTypes
      BY DEF EventTypes
    <3> QED  BY Zenon, <2>2, <3>1, EventFields
  <2>5. o.item = e.current_item_id /\ p.item = e.current_item_id
    BY DEF ItemEvent
  <2> HIDE DEF a, p, o, r
  <2>6. /\ Ranked(closing, 4, 4) /\ ToSet(closing) \subseteq {p, o}
        /\ IF e.output_item_added THEN o \in ToSet(closing) ELSE ToSet(closing) = {}
    <3>1. Ranked(<<p, o>>, 4, 4) /\ Ranked(<< >>, 4, 4)
      BY <2>4, Ranks, RankedTwo, RankedNone
    <3>2. ToSet(<<p, o>>) = {p, o} /\ ToSet(<< >>) = {}
      BY <2>4, TwoEvents, NoEvents
    <3> QED  BY <3>1, <3>2
  <2> HIDE DEF closing
  <2>7. Ranked(<<a>>, 3, 3) /\ ToSet(<<a>>) = {a} /\ Ranked(<<r>>, 5, 5) /\ ToSet(<<r>>) = {r}
    BY <2>4, Ranks, RankedOne, OneEvent
  <2>8. /\ Ranked(<<a>> \o closing, 3, 4)
        /\ ToSet(<<a>> \o closing) = {a} \cup ToSet(closing)
    BY <2>6, <2>7, RankedConcat
  <2>9. /\ Ranked((<<a>> \o closing) \o <<r>>, 3, 5)
        /\ ToSet((<<a>> \o closing) \o <<r>>) = ToSet(<<a>> \o closing) \cup {r}
    BY <2>7, <2>8, RankedConcat
  <2>10. ToSet(FinishEvents(s)) = {a, r} \cup ToSet(closing)
    BY <2>1, <2>8, <2>9
  <2> QED  BY <2>1, <2>3, <2>4, <2>5, <2>6, <2>9, <2>10
<1> QED  BY <1>1, <1>2

LEMMA TurnEventsItems ==
  ASSUME NEW s, Good(s)
  PROVE  /\ Ranked(TurnEvents(s), 1, 1)
         /\ ~s.in_response => \E e \in ToSet(TurnEvents(s)) : e.type = "response.created"
<1>1. CASE s.in_response
  BY <1>1, RankedNone DEF TurnEvents
<1>2. CASE ~s.in_response
  <2> DEFINE c == ResponseEvent("response.created", OpenResponse(s))
  <2>1. TurnEvents(s) = <<c>>
    BY <1>2 DEF TurnEvents
  <2>2. c \in Event /\ c.type = "response.created"
    <3>1. "response.created" \in EventTypes /\ OpenResponse(s) \in ConnState
      BY <1>2, OpenResponseGood DEF EventTypes, Good
    <3> QED  BY Zenon, <3>1, EventFields
  <2> HIDE DEF c
  <2>3. ToSet(<<c>>) = {c}
    BY <2>2, OneEvent
  <2> QED  BY <2>1, <2>2, <2>3, Ranks, RankedOne
<1> QED  BY <1>1, <1>2

-----------------------------------------------------------------------------
(* What one handler says and does of items, whichever it is. *)

ItemSays(s, t, events) ==
  /\ \A e \in events : e.type \in {"output_item.added", "content_part.added"} =>
       /\ e.response = t.current_response_id /\ e.item = t.current_item_id
       /\ t.output_item_added
  /\ t.output_item_added =>
       \/ /\ s.output_item_added
          /\ t.current_response_id = s.current_response_id
          /\ t.current_item_id = s.current_item_id
       \/ \E e \in events : e.type = "output_item.added"
  /\ \A e \in events : e.type \in {"content_part.done", "output_item.done"} =>
       /\ Ended(s, t) /\ s.output_item_added
       /\ e.response = s.current_response_id /\ e.item = s.current_item_id
  /\ Ended(s, t) /\ s.output_item_added => \E e \in events : e.type = "output_item.done"
  /\ \A e \in events : e.type \in {"output_audio.delta", "transcript.done"} =>
       /\ e.response = t.current_response_id /\ e.item = t.current_item_id
       /\ t.output_item_added

ItemStep ==
  /\ ItemMoves(conn, conn')
  /\ ItemSays(conn, conn', ToSet(out'))
  /\ Ordered(out')

LEMMA ReturnItems ==
  ASSUME NEW t, NEW events, Return(t, events),
         ItemMoves(conn, t), ItemSays(conn, t, ToSet(events)), Ordered(events)
  PROVE  ItemStep
BY DEF Return, ItemStep

\* Events that are about no item, of a handler that announces and ends nothing.
LEMMA QuietSays ==
  ASSUME NEW s, NEW t, Unannounced(s, t), ~Ended(s, t), NEW events,
         \A e \in events : e.type \notin ItemEventTypes
  PROVE  ItemSays(s, t, events)
BY DEF ItemSays, Unannounced, ItemEventTypes

LEMMA QuietUserEvent ==
  ASSUME NEW s \in ConnState, NEW type \in EventTypes \ ItemEventTypes
  PROVE  /\ \A e \in ToSet(<<UserEvent(type, s)>>) : e.type \notin ItemEventTypes
         /\ Ordered(<<UserEvent(type, s)>>)
<1> DEFINE d == UserEvent(type, s)
<1>1. d \in Event /\ d.type = type /\ d.response = NoId
  BY Zenon, EventFields
<1> HIDE DEF d
<1>2. ToSet(<<d>>) = {d} /\ Ranked(<<d>>, 1, 1)
  BY <1>1, OneEvent, RankedOne
<1> QED  BY <1>1, <1>2 DEF Ranked, d

\* Handlers that return one event about the user.
LEMMA QuietStep ==
  ASSUME NEW t, NEW u \in ConnState, NEW type \in EventTypes \ ItemEventTypes,
         Return(t, <<UserEvent(type, u)>>),
         ItemMoves(conn, t), Unannounced(conn, t), ~Ended(conn, t)
  PROVE  ItemStep
<1> DEFINE events == <<UserEvent(type, u)>>
<1>1. Return(t, events)
  OBVIOUS
<1>2. (\A e \in ToSet(events) : e.type \notin ItemEventTypes) /\ Ordered(events)
  BY QuietUserEvent
<1> HIDE DEF events
<1>3. ItemSays(conn, t, ToSet(events))
  BY <1>2, QuietSays
<1> QED  BY <1>1, <1>2, <1>3, ReturnItems

LEMMA UserTypes ==
  {"error", "session.updated", "speech_stopped", "speech_started", "transcription.delta",
   "transcription.completed"} \subseteq EventTypes \ ItemEventTypes
BY DEF EventTypes, ItemEventTypes

LEMMA RefuseItems ==
  ASSUME Good(conn), Refuse
  PROVE  ItemStep
<1>1. Return(conn, <<UserEvent("error", conn)>>) /\ conn \in ConnState
  BY DEF Refuse, Good
<1>2. "error" \in EventTypes \ ItemEventTypes
  BY UserTypes
<1> QED  BY <1>1, <1>2, SameMoves, QuietStep

LEMMA CreateItems ==
  ASSUME Good(conn), HandleResponseCreate
  PROVE  ItemStep
<1>1. CASE Refuse
  BY <1>1, RefuseItems
<1>2. CASE Return(TurnOpened(conn), TurnEvents(conn))
  <2> DEFINE t == TurnOpened(conn)
             events == TurnEvents(conn)
  <2>1. Return(t, events)
    BY <1>2
  <2>2. ItemMoves(conn, t) /\ Unannounced(conn, t)
    BY TurnOpenedMoves
  <2>3. ~Ended(conn, t)
    <3>1. EndsNothing /\ conn' = t
      BY <2>1, OthersEndNothing DEF Return
    <3> QED  BY <3>1 DEF EndsNothing
  <2>4. /\ Ordered(events)
        /\ \A e \in ToSet(events) : e.type = "response.created"
    BY TurnEventsSay, TurnEventsItems DEF Ranked
  <2> HIDE DEF t, events
  <2>5. \A e \in ToSet(events) : e.type \notin ItemEventTypes
    BY <2>4 DEF ItemEventTypes
  <2>6. ItemSays(conn, t, ToSet(events))
    BY <2>2, <2>3, <2>5, QuietSays
  <2> QED  BY <2>1, <2>2, <2>4, <2>6, ReturnItems
<1> QED  BY <1>1, <1>2 DEF HandleResponseCreate

LEMMA SessionUpdateItems ==
  ASSUME Good(conn), HandleSessionUpdate
  PROVE  ItemStep
<1>0. conn \in ConnState
  BY DEF Good
<1>1. CASE Refuse
  BY <1>1, RefuseItems
<1>2. CASE ~Refuse
  <2>1. PICK mode \in InterruptModes :
          Return([conn EXCEPT !.interrupt_response = mode],
                 <<UserEvent("session.updated", conn)>>)
    BY <1>2 DEF HandleSessionUpdate
  <2> DEFINE t == [conn EXCEPT !.interrupt_response = mode]
  <2>2. Return(t, <<UserEvent("session.updated", conn)>>)
    BY <2>1
  <2>3. t.interrupt_response = mode /\ t.output_item_added = conn.output_item_added
    BY Zenon, <1>0 DEF ConnState
  <2>4. /\ t.current_response_id = conn.current_response_id
        /\ t.current_item_id = conn.current_item_id
        /\ t.next_item = conn.next_item /\ conn.next_item \in Nat
    BY <1>0 DEF ConnState
  <2> HIDE DEF t
  <2>5. ~Ended(conn, t)
    BY <2>4 DEF Ended
  <2>6. conn.next_item <= t.next_item
    BY <2>4
  <2>7. ItemMoves(conn, t)
    <3>1. t.interrupt_response \in InterruptModes \cup {conn.interrupt_response}
      BY <2>3
    <3>2. t.current_item_id \in {NoId, conn.current_item_id}
      BY <2>4
    <3>3. conn.output_item_added => t.output_item_added
      BY Zenon, <2>3
    <3> QED  BY Zenon, <2>4, <2>5, <2>6, <3>1, <3>2, <3>3 DEF ItemMoves
  <2>8. Unannounced(conn, t)
    BY Zenon, <2>3, <2>4 DEF Unannounced
  <2>9. "session.updated" \in EventTypes \ ItemEventTypes
    BY UserTypes
  <2> QED  BY <1>0, <2>2, <2>5, <2>7, <2>8, <2>9, QuietStep
<1> QED  BY <1>1, <1>2

LEMMA CurrentItemItems ==
  ASSUME Good(conn), OnSpeechStopped \/ OnPartialTranscription
  PROVE  ItemStep
<1> DEFINE t == CurrentItem(conn)
<1>1. Good(t) /\ ~Ended(conn, t)
  BY CurrentItemGood, NotBoth DEF Good
<1>2. ItemMoves(conn, t) /\ Unannounced(conn, t)
  BY CurrentItemMoves
<1>3. \/ Return(t, <<UserEvent("speech_stopped", t)>>)
      \/ Return(t, <<UserEvent("transcription.delta", t)>>)
  BY DEF OnSpeechStopped, OnPartialTranscription
<1> HIDE DEF t
<1>4. {"speech_stopped", "transcription.delta"} \subseteq EventTypes \ ItemEventTypes
  BY UserTypes
<1>5. t \in ConnState
  BY <1>1 DEF Good
<1> QED  BY <1>1, <1>2, <1>3, <1>4, <1>5, QuietStep

LEMMA FinishSaysItems ==
  ASSUME NEW s, Good(s), NEW t, s.in_response => Ended(s, t) /\ ~t.output_item_added,
         ~s.in_response => ~t.output_item_added
  PROVE  ItemSays(s, t, ToSet(FinishEvents(s)))
<1>1. ~t.output_item_added
  OBVIOUS
<1>2. s.output_item_added => s.in_response
  BY DEF Good, Coherent
<1>3. \A e \in ToSet(FinishEvents(s)) : s.in_response /\ e.response = s.current_response_id
  BY FinishEventsSay
<1>4. /\ \A e \in ToSet(FinishEvents(s)) :
           /\ e.type \in {"output_audio.done", "content_part.done", "output_item.done",
                          "response.done"}
           /\ e.type \in {"content_part.done", "output_item.done"} =>
                s.output_item_added /\ e.item = s.current_item_id
      /\ s.output_item_added =>
           \E e \in ToSet(FinishEvents(s)) : e.type = "output_item.done"
  BY FinishEventsItems
<1> QED  BY <1>1, <1>2, <1>3, <1>4 DEF ItemSays

LEMMA FinishItems ==
  ASSUME Good(conn), FinishAudioResponse
  PROVE  ItemStep
<1> DEFINE t == Finished(conn)
           events == FinishEvents(conn)
<1>1. Return(t, events)
  BY DEF FinishAudioResponse
<1>2. /\ conn.in_response => Ended(conn, t) /\ ~t.output_item_added
      /\ ~conn.in_response => t = conn
      /\ ItemMoves(conn, t)
  BY FinishedGood, FinishedMoves
<1>3. ~conn.in_response => ~t.output_item_added
  BY Zenon, <1>2 DEF Good, Coherent
<1>4. ItemSays(conn, t, ToSet(events))
  <2> HIDE DEF t
  <2> QED  BY <1>2, <1>3, FinishSaysItems
<1>5. Ordered(events)
  BY FinishEventsItems DEF Ranked
<1> QED  BY <1>1, <1>2, <1>4, <1>5, ReturnItems

LEMMA SpeechStartedItems ==
  ASSUME Good(conn), OnSpeechStarted
  PROVE  ItemStep
<1> DEFINE cancels == conn.in_response /\ conn.interrupt_response
           ended == IF cancels THEN Finished(conn) ELSE conn
           t == StartItem(ended)
           closing == IF cancels THEN FinishEvents(conn) ELSE << >>
           d == UserEvent("speech_started", t)
<1>1. Return(t, closing \o <<d>>)
  BY DEF OnSpeechStarted
<1>2. /\ Good(ended) /\ ItemMoves(conn, ended)
      /\ cancels => Ended(conn, ended)
      /\ ~cancels => ended = conn
  BY FinishedGood, FinishedMoves, SameMoves
<1>3. /\ cancels => Ended(conn, t)
      /\ ~cancels => ~Ended(conn, t)
  <2> HIDE DEF ended
  <2>1. Good(t) /\ Kept(ended, t)
    BY <1>2, StartItemGood
  <2> HIDE DEF t
  <2> QED  BY <1>2, <2>1 DEF Kept, Ended
<1>4. /\ Good(t) /\ ~t.output_item_added
      /\ t.interrupt_response = ended.interrupt_response
      /\ t.next_item = ended.next_item + 1 /\ ended.next_item \in Nat
      /\ t.current_item_id = ended.next_item
  <2> HIDE DEF ended
  <2> QED  BY <1>2, StartItemGood, StartItemMoves
<1> HIDE DEF t, ended
<1>5. ItemMoves(conn, t)
  <2>1. conn.next_item \in Nat /\ conn.next_item <= ended.next_item
    BY <1>2, ConnFieldTypes DEF ItemMoves, Good
  <2>2. conn.next_item <= t.next_item /\ conn.next_item <= t.current_item_id
    BY <1>4, <2>1
  <2>3. t.interrupt_response \in InterruptModes \cup {conn.interrupt_response}
    BY <1>2, <1>4 DEF ItemMoves
  <2>4. conn.interrupt_response /\ conn.output_item_added => Ended(conn, t)
    BY Zenon, <1>3 DEF Good, Coherent
  <2> QED  BY Zenon, <2>2, <2>3, <2>4 DEF ItemMoves
<1>6. d \in Event /\ d.type = "speech_started" /\ d.response = NoId
  <2>1. t \in ConnState /\ "speech_started" \in EventTypes
    BY <1>4, UserTypes DEF Good
  <2> QED  BY Zenon, <2>1, EventFields
<1> HIDE DEF d
<1>7. Ranked(closing, 3, 5) /\ ItemSays(conn, t, ToSet(closing))
  <2>1. CASE cancels
    <3>1. closing = FinishEvents(conn) /\ conn.in_response
      BY <2>1
    <3>2. Ended(conn, t)
      BY <1>3, <2>1
    <3> HIDE DEF closing
    <3> QED  BY <1>4, <3>1, <3>2, FinishSaysItems, FinishEventsItems
  <2>2. CASE ~cancels
    <3>1. closing = << >> /\ ~Ended(conn, t)
      BY <1>3, <2>2
    <3> HIDE DEF closing
    <3> QED  BY <1>4, <3>1, NoEvents DEF ItemSays, Ranked, Ordered
  <2> QED  BY <2>1, <2>2
<1> HIDE DEF closing
<1>8. Ranked(<<d>>, 5, 5) /\ ToSet(<<d>>) = {d}
  BY <1>6, RankedOne, OneEvent
<1> DEFINE events == closing \o <<d>>
<1>9. Ranked(events, 3, 5) /\ ToSet(events) = ToSet(closing) \cup {d}
  BY <1>7, <1>8, RankedConcat
<1>10. ItemSays(conn, t, ToSet(events))
  <2> HIDE DEF events
  <2> QED  BY <1>6, <1>7, <1>9 DEF ItemSays
<1>11. Return(t, events) /\ Ordered(events)
  BY <1>1, <1>9 DEF Ranked
<1> HIDE DEF events
<1> QED  BY <1>5, <1>10, <1>11, ReturnItems

LEMMA TranscriptionItems ==
  ASSUME Good(conn), OnTranscriptionCompleted
  PROVE  ItemStep
<1> DEFINE s == CurrentItem(conn)
           d == UserEvent("transcription.completed", s)
           t == TurnOpened(s)
           opening == TurnEvents(s)
<1>1. \/ Return(s, <<d>>)
      \/ Return(t, <<d>> \o opening)
  BY DEF OnTranscriptionCompleted
<1>2. /\ Good(s) /\ ItemMoves(conn, s) /\ Unannounced(conn, s)
      /\ s.in_response = conn.in_response
      /\ s.current_response_id = conn.current_response_id
  BY CurrentItemGood, CurrentItemMoves DEF Kept
<1>3. ItemMoves(s, t) /\ Unannounced(s, t) /\ (s.in_response => t = s) /\ Good(t)
  <2> HIDE DEF s
  <2> QED  BY <1>2, TurnOpenedMoves, TurnOpenedGood
<1>4. EndsNothing
  BY OthersEndNothing
<1>5. "transcription.completed" \in EventTypes \ ItemEventTypes
  BY UserTypes
<1> HIDE DEF s
<1>6. conn \in ConnState /\ s \in ConnState
  BY <1>2 DEF Good
<1>7. CASE Return(s, <<d>>)
  <2>1. ~Ended(conn, s)
    BY <1>4, <1>7 DEF EndsNothing, Return
  <2> QED  BY <1>2, <1>5, <1>6, <1>7, <2>1, QuietStep
<1>8. CASE Return(t, <<d>> \o opening)
  <2>1. d \in Event /\ d.type = "transcription.completed" /\ d.response = NoId
    BY Zenon, <1>5, <1>6, EventFields
  <2>2. /\ Ranked(opening, 1, 1)
        /\ \A e \in ToSet(opening) : e.type = "response.created"
    BY <1>2, TurnEventsSay, TurnEventsItems
  <2> HIDE DEF d, t, opening
  <2>3. ~Ended(conn, t)
    BY <1>4, <1>8 DEF EndsNothing, Return
  <2>4. Ranked(<<d>>, 1, 1) /\ ToSet(<<d>>) = {d}
    BY <2>1, RankedOne, OneEvent
  <2> DEFINE events == <<d>> \o opening
  <2>5. Ranked(events, 1, 1) /\ ToSet(events) = {d} \cup ToSet(opening)
    BY <2>2, <2>4, RankedConcat
  <2>6. Return(t, events) /\ Ordered(events)
    BY <1>8, <2>5 DEF Ranked
  <2> HIDE DEF events
  <2>7. \A e \in ToSet(events) : e.type \notin ItemEventTypes
    BY <2>1, <2>2, <2>5 DEF ItemEventTypes
  <2>8. Unannounced(conn, t)
    BY Zenon, <1>2, <1>3 DEF Unannounced
  <2>9. ItemMoves(conn, t)
    <3>1. CASE s.in_response
      BY <1>2, <1>3, <3>1
    <3>2. CASE ~s.in_response
      <4>1. ~conn.output_item_added
        BY Zenon, <1>2, <3>2 DEF Good, Coherent
      <4>2. /\ conn.next_item \in Nat /\ s.next_item \in Nat /\ t.next_item \in Nat
            /\ t.current_item_id \in Nat
        BY <1>3, <1>6, ConnFieldTypes DEF Good
      <4>3. /\ conn.next_item <= t.next_item
            /\ \/ t.current_item_id \in {NoId, conn.current_item_id}
               \/ conn.next_item <= t.current_item_id
        BY <1>2, <1>3, <4>2 DEF ItemMoves
      <4>4. t.interrupt_response \in InterruptModes \cup {conn.interrupt_response}
        BY <1>2, <1>3 DEF ItemMoves
      <4> QED  BY Zenon, <2>3, <4>1, <4>3, <4>4 DEF ItemMoves
    <3> QED  BY <3>1, <3>2
  <2>10. ItemSays(conn, t, ToSet(events))
    BY <2>3, <2>7, <2>8, QuietSays
  <2> QED  BY <2>6, <2>9, <2>10, ReturnItems
<1> QED  BY <1>1, <1>7, <1>8

\* Announcing the item and then one more event of it.
LEMMA BeginItems ==
  ASSUME Good(conn), NEW type \in {"output_audio.delta", "transcript.done"}
  PROVE  LET e == EnsureResponse(conn)
             t == Announced(e)
             events == BeginEvents(e) \o <<ItemEvent(type, e)>>
         IN /\ Ranked(events, 1, 3)
            /\ ItemMoves(conn, t) /\ ItemSays(conn, t, ToSet(events))
<1> DEFINE e == EnsureResponse(conn)
           t == Announced(e)
           d == ItemEvent(type, e)
           begin == BeginEvents(e)
           events == begin \o <<d>>
<1>1. /\ Good(e) /\ ~Ended(conn, t) /\ ~Ended(conn, e)
      /\ ItemMoves(conn, e) /\ Unannounced(conn, e)
  BY EnsureStep, EnsureResponseMoves
<1> HIDE DEF e
<1>2. e \in ConnState
  BY <1>1 DEF Good
<1>3. /\ t.current_response_id = e.current_response_id
      /\ t.current_item_id = e.current_item_id /\ t.next_item = e.next_item
  BY <1>2, AnnouncedFields
<1>4. t.output_item_added
  BY Zenon, <1>2, AnnouncedFields
<1>5. t.interrupt_response = e.interrupt_response
  BY Zenon, <1>2, InterruptKept
<1>6. /\ d \in Event /\ d.type = type
      /\ d.response = e.current_response_id /\ d.item = e.current_item_id
  <2>1. type \in EventTypes
    BY DEF EventTypes
  <2>2. d.item = e.current_item_id
    BY DEF ItemEvent
  <2> QED  BY Zenon, <1>2, <2>1, <2>2, EventFields
<1>7. /\ Ranked(begin, 1, 2)
      /\ \A b \in ToSet(begin) :
           /\ b.type \in {"response.created", "output_item.added", "content_part.added"}
           /\ b.type \in {"output_item.added", "content_part.added"} =>
                /\ ~e.output_item_added
                /\ b.response = e.current_response_id /\ b.item = e.current_item_id
      /\ ~e.output_item_added => \E b \in ToSet(begin) : b.type = "output_item.added"
  BY <1>2, BeginEventsItems
<1> HIDE DEF t, d, begin
<1>8. Ranked(<<d>>, 3, 3) /\ ToSet(<<d>>) = {d}
  BY <1>6, Ranks, RankedOne, OneEvent
<1>9. Ranked(events, 1, 3) /\ ToSet(events) = ToSet(begin) \cup {d}
  BY <1>7, <1>8, RankedConcat
<1> HIDE DEF events
<1>10. ItemMoves(conn, t)
  BY Zenon, <1>1, <1>3, <1>4, <1>5 DEF ItemMoves
<1>11. ItemSays(conn, t, ToSet(events))
  <2>1. \/ /\ conn.output_item_added
           /\ t.current_response_id = conn.current_response_id
           /\ t.current_item_id = conn.current_item_id
        \/ \E b \in ToSet(events) : b.type = "output_item.added"
    BY <1>1, <1>3, <1>7, <1>9 DEF Unannounced
  <2>2. \A b \in ToSet(events) :
          \/ b = d
          \/ /\ b.type \in {"response.created", "output_item.added", "content_part.added"}
             /\ b.type \in {"output_item.added", "content_part.added"} =>
                  b.response = t.current_response_id /\ b.item = t.current_item_id
    BY <1>3, <1>7, <1>9
  <2> QED  BY <1>1, <1>3, <1>4, <1>6, <2>1, <2>2 DEF ItemSays
<1> QED  BY <1>9, <1>10, <1>11 DEF events, begin, d, t, e

LEMMA AudioChunkItems ==
  ASSUME Good(conn), EncodeAudioChunk
  PROVE  ItemStep
<1> DEFINE e == EnsureResponse(conn)
           t == Announced(e)
           events == BeginEvents(e) \o <<ItemEvent("output_audio.delta", e)>>
<1>1. Return(t, events)
  BY DEF EncodeAudioChunk
<1>2. Ranked(events, 1, 3) /\ ItemMoves(conn, t) /\ ItemSays(conn, t, ToSet(events))
  BY BeginItems
<1> HIDE DEF t, events
<1> QED  BY <1>1, <1>2, ReturnItems DEF Ranked

LEMMA AssistantTextItems ==
  ASSUME Good(conn), OnAssistantText
  PROVE  ItemStep
<1> DEFINE e == EnsureResponse(conn)
           t == Announced(e)
           spoken == BeginEvents(e) \o <<ItemEvent("transcript.done", e)>>
           call == ItemEvent("function_call_arguments.done", e)
<1>1. PICK text \in BOOLEAN, tools \in BOOLEAN :
        LET calls == IF tools THEN <<call>> ELSE << >> IN
        IF text THEN Return(t, spoken \o calls) ELSE Return(e, calls)
  BY DEF OnAssistantText
<1> DEFINE calls == IF tools THEN <<call>> ELSE << >>
<1>2. IF text THEN Return(t, spoken \o calls) ELSE Return(e, calls)
  BY <1>1
<1>3. Ranked(spoken, 1, 3) /\ ItemMoves(conn, t) /\ ItemSays(conn, t, ToSet(spoken))
  BY BeginItems
<1>4. /\ Good(e) /\ ~Ended(conn, e)
      /\ ItemMoves(conn, e) /\ Unannounced(conn, e)
  BY EnsureStep, EnsureResponseMoves
<1>5. call \in Event /\ call.type = "function_call_arguments.done"
  <2> HIDE DEF e
  <2>1. "function_call_arguments.done" \in EventTypes /\ e \in ConnState
    BY <1>4 DEF EventTypes, Good
  <2> QED  BY Zenon, <2>1, EventFields
<1> HIDE DEF e, t, spoken, call
<1>6. Ranked(calls, 3, 3) /\ ToSet(calls) \subseteq {call}
  <2>1. Ranked(<<call>>, 3, 3) /\ Ranked(<< >>, 3, 3)
    BY <1>5, Ranks, RankedOne, RankedNone
  <2>2. ToSet(<<call>>) = {call} /\ ToSet(<< >>) = {}
    BY <1>5, OneEvent, NoEvents
  <2> QED  BY <2>1, <2>2
<1> HIDE DEF calls
<1>7. CASE text
  <2> DEFINE events == spoken \o calls
  <2>1. Ranked(events, 1, 3) /\ ToSet(events) = ToSet(spoken) \cup ToSet(calls)
    BY <1>3, <1>6, RankedConcat
  <2>2. Return(t, events) /\ Ordered(events)
    BY <1>2, <1>7, <2>1 DEF Ranked
  <2> HIDE DEF events
  <2>3. ItemSays(conn, t, ToSet(events))
    BY <1>3, <1>5, <1>6, <2>1 DEF ItemSays
  <2> QED  BY <1>3, <2>2, <2>3, ReturnItems
<1>8. CASE ~text
  <2>1. \A c \in ToSet(calls) : c.type \notin ItemEventTypes
    BY <1>5, <1>6 DEF ItemEventTypes
  <2>2. ItemSays(conn, e, ToSet(calls))
    BY <1>4, <2>1, QuietSays
  <2>3. Return(e, calls) /\ Ordered(calls)
    BY <1>2, <1>6, <1>8 DEF Ranked
  <2> QED  BY <1>4, <2>2, <2>3, ReturnItems
<1> QED  BY <1>7, <1>8

LEMMA NextItems ==
  ASSUME Good(conn), Next
  PROVE  ItemStep
BY CreateItems, FinishItems, SessionUpdateItems, SpeechStartedItems, CurrentItemItems,
   TranscriptionItems, AssistantTextItems, AudioChunkItems DEF Next

-----------------------------------------------------------------------------
(* A response that is marked as announced has been announced. *)

\* The mark was there before, on the same response, or response.created is
\* among what the handler returns.
MarkedAsSent(t, events) ==
  t.response_created_sent =>
    \/ conn.response_created_sent /\ t.current_response_id = conn.current_response_id
    \/ \E e \in events : e.type = "response.created"

LEMMA SameMark ==
  ASSUME Good(conn), NEW t, Kept(conn, t), NEW events,
         t.response_created_sent = conn.response_created_sent
  PROVE  MarkedAsSent(t, events)
BY Zenon DEF Kept, MarkedAsSent

\* begin_turn_response, whatever else is returned with its event.
LEMMA TurnMark ==
  ASSUME Good(conn), NEW s, Good(s), Kept(conn, s),
         s.response_created_sent = conn.response_created_sent,
         NEW events, \A e \in ToSet(TurnEvents(s)) : e \in events
  PROVE  MarkedAsSent(TurnOpened(s), events)
<1>1. CASE s.in_response
  <2>1. TurnOpened(s) = s
    BY <1>1, TurnOpenedGood
  <2> QED  BY <2>1, SameMark
<1>2. CASE ~s.in_response
  BY <1>2, TurnEventsItems DEF MarkedAsSent
<1> QED  BY <1>1, <1>2

\* begin_output_item_events, whatever else is returned with its events.
LEMMA BeginMark ==
  ASSUME Good(conn), NEW events,
         \A e \in ToSet(BeginEvents(EnsureResponse(conn))) : e \in events
  PROVE  MarkedAsSent(Announced(EnsureResponse(conn)), events)
<1> DEFINE e == EnsureResponse(conn)
           t == Announced(e)
<1>1. /\ Good(e) /\ (Kept(conn, t) \/ Opened(conn, t))
      /\ e.response_created_sent = conn.response_created_sent
  BY EnsureStep
<1>2. CASE e.response_created_sent
  <2>1. conn.response_created_sent
    BY Zenon, <1>1, <1>2
  <2>2. conn.current_response_id # NoId
    BY <2>1 DEF Good, Coherent
  <2> HIDE DEF e, t
  <2>3. Kept(conn, t)
    BY <1>1, <2>2 DEF Opened
  <2> QED  BY Zenon, <2>1, <2>3 DEF Kept, MarkedAsSent, e, t
<1>3. CASE ~e.response_created_sent
  <2>1. e \in ConnState
    BY <1>1 DEF Good
  <2> HIDE DEF e
  <2>2. \E b \in ToSet(BeginEvents(e)) : b.type = "response.created"
    BY <1>3, <2>1, BeginEventsItems
  <2> QED  BY <2>2 DEF MarkedAsSent, e
<1> QED  BY <1>2, <1>3

LEMMA MarkStep ==
  ASSUME Good(conn), Next
  PROVE  MarkedAsSent(conn', ToSet(out'))
<1>0. conn \in ConnState
  BY DEF Good
<1>1. ASSUME UNCHANGED conn PROVE MarkedAsSent(conn', ToSet(out'))
  BY <1>1 DEF MarkedAsSent
<1>2. CASE HandleResponseCreate
  <2>1. CASE Refuse
    BY <1>1, <2>1 DEF Refuse, Return
  <2>2. CASE conn' = TurnOpened(conn) /\ out' = TurnEvents(conn)
    BY <2>2, TurnMark DEF Kept
  <2> QED  BY <1>2, <2>1, <2>2 DEF HandleResponseCreate, Return
<1>3. CASE HandleSessionUpdate
  <2>1. CASE Refuse
    BY <1>1, <2>1 DEF Refuse, Return
  <2>2. ASSUME NEW mode \in InterruptModes, conn' = [conn EXCEPT !.interrupt_response = mode]
        PROVE  MarkedAsSent(conn', ToSet(out'))
    <3>1. conn'.current_response_id = conn.current_response_id
      BY <1>0, <2>2 DEF ConnState
    <3>2. conn'.response_created_sent = conn.response_created_sent
      BY Zenon, <1>0, <2>2 DEF ConnState
    <3> QED  BY Zenon, <3>1, <3>2 DEF MarkedAsSent
  <2> QED  BY <1>3, <2>1, <2>2 DEF HandleSessionUpdate, Return
<1>4. CASE OnSpeechStopped \/ OnPartialTranscription
  <2>1. conn' = CurrentItem(conn)
    BY <1>4 DEF OnSpeechStopped, OnPartialTranscription, Return
  <2> QED  BY <2>1, CurrentItemGood, SameMark
<1>5. CASE FinishAudioResponse \/ OnSpeechStarted
  <2> DEFINE finished == Finished(conn)
  <2>1. /\ Good(finished)
        /\ ~conn.in_response => finished = conn
        /\ conn.in_response => Ended(conn, finished)
    BY FinishedGood
  <2>2. conn' \in {finished, StartItem(finished), StartItem(conn)}
    BY <1>5 DEF FinishAudioResponse, OnSpeechStarted, Return
  <2> HIDE DEF finished
  <2>3. finished \in ConnState
    BY <2>1 DEF Good
  <2>4. /\ StartItem(finished).response_created_sent = finished.response_created_sent
        /\ StartItem(conn).response_created_sent = conn.response_created_sent
    BY Zenon, <1>0, <2>3, StartItemFields
  <2>5. Kept(conn, StartItem(conn))
    BY StartItemGood
  <2>6. StartItem(finished).current_response_id = finished.current_response_id
    BY Zenon, <2>3, StartItemFields
  <2>7. MarkedAsSent(StartItem(conn), ToSet(out'))
    BY <2>4, <2>5, SameMark
  <2>8. CASE conn.in_response
    <3>1. ~finished.response_created_sent
      BY <2>1, <2>8 DEF Ended, Good, Coherent
    <3>2. MarkedAsSent(finished, ToSet(out')) /\ MarkedAsSent(StartItem(finished), ToSet(out'))
      BY Zenon, <2>4, <3>1 DEF MarkedAsSent
    <3> QED  BY <2>2, <2>7, <3>2
  <2>9. CASE ~conn.in_response
    BY <1>1, <2>1, <2>2, <2>7, <2>9
  <2> QED  BY <2>8, <2>9
<1>6. CASE OnTranscriptionCompleted
  <2> DEFINE s == CurrentItem(conn)
             d == UserEvent("transcription.completed", s)
  <2>1. /\ Good(s) /\ Kept(conn, s)
        /\ s.response_created_sent = conn.response_created_sent
    BY CurrentItemGood
  <2>2. \/ conn' = s
        \/ conn' = TurnOpened(s) /\ out' = <<d>> \o TurnEvents(s)
    BY <1>6 DEF OnTranscriptionCompleted, Return
  <2>3. s \in ConnState /\ "transcription.completed" \in EventTypes
    BY <2>1 DEF Good, EventTypes
  <2> HIDE DEF s
  <2>4. d \in Event
    BY Zenon, <2>3, EventFields
  <2> HIDE DEF d
  <2>5. CASE conn' = s
    BY <2>1, <2>5, SameMark
  <2>6. CASE conn' = TurnOpened(s) /\ out' = <<d>> \o TurnEvents(s)
    <3>1. <<d>> \in Seq(Event) /\ TurnEvents(s) \in Seq(Event)
      BY <2>1, <2>4, OneEvent, TurnEventsSay
    <3>2. \A e \in ToSet(TurnEvents(s)) : e \in ToSet(out')
      BY <2>6, <3>1, ToSetConcat
    <3> QED  BY <2>1, <2>6, <3>2, TurnMark
  <2> QED  BY <2>2, <2>5, <2>6
<1>7. CASE OnAssistantText \/ EncodeAudioChunk
  <2> DEFINE e == EnsureResponse(conn)
             begin == BeginEvents(e)
             audio == ItemEvent("output_audio.delta", e)
             words == ItemEvent("transcript.done", e)
             call  == ItemEvent("function_call_arguments.done", e)
  <2>1. \/ conn' = e
        \/ /\ conn' = Announced(e)
           /\ out' \in {begin \o <<audio>>, (begin \o <<words>>) \o << >>,
                       (begin \o <<words>>) \o <<call>>}
    BY <1>7 DEF OnAssistantText, EncodeAudioChunk, Return
  <2>2. /\ Good(e) /\ (Kept(conn, e) \/ Opened(conn, e))
        /\ e.response_created_sent = conn.response_created_sent
    BY EnsureStep
  <2>3. CASE conn' = e
    <3> HIDE DEF e
    <3>1. CASE Kept(conn, e)
      BY <2>2, <2>3, <3>1, SameMark
    <3>2. CASE Opened(conn, e)
      <4>1. ~conn.response_created_sent
        BY <3>2 DEF Opened, Good, Coherent
      <4>2. ~conn'.response_created_sent
        BY Zenon, <2>2, <2>3, <4>1
      <4> QED  BY <4>2 DEF MarkedAsSent
    <3> QED  BY <2>2, <3>1, <3>2
  <2>4. CASE conn' = Announced(e) /\ out' \in {begin \o <<audio>>, (begin \o <<words>>) \o << >>,
                                              (begin \o <<words>>) \o <<call>>}
    <3>1. e \in ConnState
      BY <2>2 DEF Good
    <3> HIDE DEF e
    <3>2. begin \in Seq(Event)
      BY <3>1, BeginEventsSay
    <3>3. {audio, words, call} \subseteq Event
      <4>1. {"output_audio.delta", "transcript.done", "function_call_arguments.done"} \subseteq EventTypes
        BY DEF EventTypes
      <4> QED  BY Zenon, <3>1, <4>1, EventFields
    <3> HIDE DEF begin, audio, words, call
    <3>4. /\ <<audio>> \in Seq(Event) /\ <<words>> \in Seq(Event)
          /\ <<call>> \in Seq(Event) /\ << >> \in Seq(Event)
      BY <3>3, OneEvent, NoEvents
    <3>5. begin \o <<words>> \in Seq(Event)
      BY <3>2, <3>4, ToSetConcat
    <3>6. \A b \in ToSet(begin) : b \in ToSet(out')
      BY <2>4, <3>2, <3>4, <3>5, ToSetConcat
    <3> QED  BY <2>4, <3>6, BeginMark DEF begin, e
  <2> QED  BY <2>1, <2>3, <2>4
<1> QED  BY <1>2, <1>3, <1>4, <1>5, <1>6, <1>7 DEF Next

-----------------------------------------------------------------------------
(* The invariant of items.  A response marked as announced is on the wire,   *)
(* and so is an item, which is not one that an output_item.done there has    *)
(* closed.                                                                   *)

ItemInv ==
  /\ conn.response_created_sent =>
       \E e \in wire : e.type = "response.created" /\ e.response = conn.current_response_id
  /\ conn.output_item_added =>
       \E e \in wire : /\ e.type = "output_item.added"
                       /\ e.response = conn.current_response_id
                       /\ e.item = conn.current_item_id
  /\ \A e \in wire : e.type = "output_item.done" =>
       /\ e.item \in Nat \ {NoId} /\ e.item < conn.next_item
       /\ e.item # conn.current_item_id
  /\ ProtocolOrder
  /\ AudioAttached
  /\ BetweenCreatedAndDone

LEMMA ItemInvInit == Init => ItemInv
<1> SUFFICES ASSUME Init PROVE ItemInv
  OBVIOUS
<1>1. PICK mode \in InterruptModes : conn = NewConn(mode)
  BY DEF Init
<1>2. conn.output_item_added = FALSE /\ conn.response_created_sent = FALSE
  BY Zenon, <1>1 DEF NewConn
<1>3. wire = {} /\ out = << >>
  BY DEF Init
<1> QED  BY <1>2, <1>3 DEF ItemInv, ProtocolOrder, AudioAttached, BetweenCreatedAndDone

\* What is known of a step of a handler.
LEMMA ItemFacts ==
  ASSUME IInv, Next
  PROVE  /\ Good(conn) /\ Good(conn') /\ ItemStep
         /\ Kept(conn, conn') \/ Opened(conn, conn') \/ Ended(conn, conn')
         /\ \A e \in wire' : e \in wire \/ e \in ToSet(out')
         /\ \A e \in wire : e \in wire'
         /\ \A e \in ToSet(out') :
              e.type \in {"output_item.added", "output_item.done"} => e \in wire'
         /\ ToSet(out') \subseteq Event /\ out' \in Seq(Event)
         /\ \A e \in ToSet(out') : e.type = "response.created" => e \in wire'
         /\ Says(conn, conn', ToSet(out')) /\ MarkedAsSent(conn', ToSet(out'))
<1>1. Good(conn)
  BY GoodConn DEF IInv
<1>2. HandlerStep /\ ItemStep /\ MarkedAsSent(conn', ToSet(out'))
  BY <1>1, NextStep, NextItems, MarkStep
<1>3. wire' = wire \cup {e \in ToSet(out') : e.type \in LifecycleTypes}
  BY <1>2 DEF HandlerStep
<1> QED  BY <1>1, <1>2, <1>3 DEF HandlerStep, Says, LifecycleTypes

LEMMA ItemInvStep ==
  ASSUME IInv, IInv', ItemInv, Next
  PROVE  ItemInv'
<1> DEFINE s == conn
           t == conn'
           said == ToSet(out')
<1>1. /\ Good(s) /\ Good(t) /\ ItemMoves(s, t) /\ ItemSays(s, t, said) /\ Ordered(out')
      /\ \A e \in wire' : e \in wire \/ e \in said
      /\ \A e \in wire : e \in wire'
      /\ \A e \in said : e.type \in {"output_item.added", "output_item.done"} => e \in wire'
  BY ItemFacts DEF ItemStep
<1>2. t.output_item_added =>
        \E e \in wire' : /\ e.type = "output_item.added"
                         /\ e.response = t.current_response_id
                         /\ e.item = t.current_item_id
  BY <1>1 DEF ItemSays, ItemInv
<1>3. ASSUME NEW e \in wire', e.type = "output_item.done"
      PROVE  /\ e.item \in Nat \ {NoId} /\ e.item < t.next_item
             /\ e.item # t.current_item_id
  <2>1. /\ s.next_item \in Nat /\ t.next_item \in Nat /\ s.next_item <= t.next_item
        /\ s.current_item_id \in Nat /\ t.current_item_id \in Nat
        /\ s.current_item_id < s.next_item
    BY <1>1, ConnFieldTypes DEF Good, Coherent, ItemMoves
  <2>2. CASE e \in wire
    <3>1. /\ e.item \in Nat \ {NoId} /\ e.item < s.next_item
          /\ e.item # s.current_item_id
      BY <1>3, <2>2 DEF ItemInv
    <3>2. t.current_item_id \in {NoId, s.current_item_id} \/ s.next_item <= t.current_item_id
      BY <1>1 DEF ItemMoves
    <3> QED  BY <2>1, <3>1, <3>2
  <2>3. CASE e \in said
    <3>1. Ended(s, t) /\ s.output_item_added /\ e.item = s.current_item_id
      BY <1>1, <1>3, <2>3 DEF ItemSays
    <3>2. s.current_item_id # NoId
      BY <1>1, <3>1 DEF Good, Coherent
    <3>3. t.current_item_id = NoId \/ s.next_item <= t.current_item_id
      BY <1>1, <3>1 DEF ItemMoves
    <3> QED  BY <2>1, <3>1, <3>2, <3>3
  <2> QED  BY <1>1, <2>2, <2>3
<1>4. ProtocolOrder'
  BY <1>1 DEF ProtocolOrder, Ordered
<1>6. t.response_created_sent =>
        \E e \in wire' : e.type = "response.created" /\ e.response = t.current_response_id
  <2> SUFFICES ASSUME t.response_created_sent
               PROVE  \E e \in wire' : /\ e.type = "response.created"
                                      /\ e.response = t.current_response_id
    OBVIOUS
  <2>1. CASE s.response_created_sent /\ t.current_response_id = s.current_response_id
    BY <1>1, <2>1 DEF ItemInv
  <2>2. CASE \E e \in said : e.type = "response.created"
    BY <2>2, ItemFacts DEF Says
  <2> QED  BY <2>1, <2>2, ItemFacts DEF MarkedAsSent
<1>7. BetweenCreatedAndDone'
  <2> SUFFICES ASSUME NEW i \in DOMAIN out', out'[i].type \in ItemEventTypes
               PROVE  /\ \E e \in wire' : /\ e.type = "response.created"
                                          /\ e.response = out'[i].response
                      /\ out'[i].response \in DoneIds' =>
                           \E j \in DOMAIN out' : /\ out'[j].type = "response.done"
                                                 /\ out'[j].response = out'[i].response
                      /\ \A j \in DOMAIN out' : out'[j].response = out'[i].response =>
                           /\ out'[j].type = "response.created" => j < i
                           /\ out'[j].type = "response.done" => i < j
    BY DEF BetweenCreatedAndDone
  <2> DEFINE e == out'[i]
  <2>1. e \in said
    BY DEF ToSet
  <2>2. \/ e.response = t.current_response_id /\ t.output_item_added
        \/ e.response = s.current_response_id /\ s.output_item_added /\ Ended(s, t)
    BY <1>1, <2>1 DEF ItemSays, ItemEventTypes
  <2>3. e.response # NoId /\ \E w \in wire' : /\ w.type = "response.created"
                                             /\ w.response = e.response
    <3>1. CASE e.response = t.current_response_id /\ t.output_item_added
      BY <1>1, <1>6, <3>1 DEF Good, Coherent
    <3>2. CASE e.response = s.current_response_id /\ s.output_item_added
      <4>1. s.response_created_sent /\ s.current_response_id # NoId
        BY <1>1, <3>2 DEF Good, Coherent
      <4> QED  BY <1>1, <3>2, <4>1 DEF ItemInv
    <3> QED  BY <2>2, <3>1, <3>2
  <2>4. e.response \in DoneIds' =>
          \E j \in DOMAIN out' : out'[j].type = "response.done" /\ out'[j].response = e.response
    <3> SUFFICES ASSUME e.response \in DoneIds'
                 PROVE  \E j \in DOMAIN out' : /\ out'[j].type = "response.done"
                                              /\ out'[j].response = e.response
      OBVIOUS
    <3>1. e.response # t.current_response_id
      BY DoneIdsFacts DEF DoneIds, IInv, WireInv
    <3>2. Ended(s, t) /\ e.response = s.current_response_id
      BY <2>2, <3>1
    <3>3. PICK d \in said : d.type = "response.done" /\ d.response = s.current_response_id
      BY <3>2, ItemFacts DEF Says
    <3> QED  BY <3>2, <3>3 DEF ToSet
  <2>5. ASSUME NEW j \in DOMAIN out', out'[j].response = e.response
        PROVE  /\ out'[j].type = "response.created" => j < i
               /\ out'[j].type = "response.done" => i < j
    <3>1. i \in Nat /\ j \in Nat
      BY ItemFacts
    <3>2. Rank(e.type) \in 2..4
      BY DEF Rank, ItemEventTypes
    <3>3. /\ i < j => Rank(e.type) <= Rank(out'[j].type)
          /\ j < i => Rank(out'[j].type) <= Rank(e.type)
      BY <1>1, <2>3, <2>5 DEF Ordered
    <3>4. out'[j].type = "response.created" => j # i /\ Rank(out'[j].type) = 1
      BY DEF Rank, ItemEventTypes
    <3>5. out'[j].type = "response.done" => j # i /\ Rank(out'[j].type) = 5
      BY DEF Rank, ItemEventTypes
    <3> HIDE DEF e
    <3> QED  BY <3>1, <3>2, <3>3, <3>4, <3>5
  <2> QED  BY <2>3, <2>4, <2>5
<1>5. AudioAttached'
  <2> SUFFICES ASSUME NEW i \in DOMAIN out',
                      out'[i].type \in {"output_audio.delta", "transcript.done"}
               PROVE  /\ \E e \in AddedFor(out[i].response)' : e.item = out'[i].item
                      /\ out'[i].item \notin DoneItems'
    BY DEF AudioAttached
  <2>1. out'[i] \in said
    BY DEF ToSet
  <2>2. /\ out'[i].response = t.current_response_id /\ out'[i].item = t.current_item_id
        /\ t.output_item_added
    BY <1>1, <2>1 DEF ItemSays
  <2>3. \E e \in AddedFor(out[i].response)' : e.item = out'[i].item
    BY <1>2, <2>2 DEF AddedFor
  <2>4. out'[i].item \notin DoneItems'
    BY <1>3, <2>2 DEF DoneItems
  <2> QED  BY <2>3, <2>4
<1> QED  BY <1>2, <1>3, <1>4, <1>5, <1>6, <1>7 DEF ItemInv

\* Over the whole session, whatever interrupts what: the announcement of an item,
\* its parts, its audio, its transcript and its end come after response.created of
\* their response and before its response.done, whichever handlers return them
\* (response.py, begin_output_item_events and finish_audio_response); and audio
\* and transcripts come under an item that is announced and not yet closed.
THEOREM AudioHasItsItem == Spec => [](BetweenCreatedAndDone /\ AudioAttached /\ ProtocolOrder)
<1>1. IInv /\ IInv' /\ ItemInv /\ [Next]_vars => ItemInv'
  <2>1. CASE Next
    BY <2>1, ItemInvStep
  <2>2. ASSUME ItemInv, UNCHANGED vars
        PROVE  ItemInv'
    BY <2>2 DEF vars, ItemInv, ProtocolOrder, AudioAttached, AddedFor, DoneItems,
                BetweenCreatedAndDone, DoneIds
  <2> QED  BY <2>1, <2>2
<1>2. ItemInv => BetweenCreatedAndDone /\ AudioAttached /\ ProtocolOrder
  BY DEF ItemInv
<1> QED  BY <1>1, <1>2, ItemInvInit, Invariance, PTL DEF Spec

\* Where speech always interrupts a response, a response has one item: the item
\* announced for the response in progress is the current one.
Interrupting == InterruptModes \subseteq {TRUE}

OneItemInv ==
  /\ conn.interrupt_response = TRUE
  /\ \A e \in wire : e.type = "output_item.added" =>
       /\ e.response # NoId
       /\ e.response = conn.current_response_id =>
            conn.output_item_added /\ e.item = conn.current_item_id
  /\ OneItemPerResponse
  /\ ItemsClosed

LEMMA OneItemInit ==
  ASSUME Interrupting, Init
  PROVE  OneItemInv
<1>1. PICK mode \in InterruptModes : conn = NewConn(mode)
  BY DEF Init
<1>2. mode = TRUE
  BY DEF Interrupting
<1>3. conn.interrupt_response = TRUE
  BY Zenon, <1>1, <1>2 DEF NewConn
<1>4. wire = {}
  BY DEF Init
<1> QED  BY <1>3, <1>4 DEF OneItemInv, OneItemPerResponse, ItemsClosed

LEMMA OneItemStep ==
  ASSUME Interrupting, IInv, IInv', OneItemInv, Next
  PROVE  OneItemInv'
<1> DEFINE s == conn
           t == conn'
           said == ToSet(out')
<1>1. /\ Good(s) /\ Good(t) /\ ItemMoves(s, t) /\ ItemSays(s, t, said)
      /\ Kept(s, t) \/ Opened(s, t) \/ Ended(s, t)
      /\ \A e \in wire' : e \in wire \/ e \in said
      /\ \A e \in wire : e \in wire'
      /\ \A e \in said : e.type \in {"output_item.added", "output_item.done"} => e \in wire'
      /\ said \subseteq Event
  BY ItemFacts DEF ItemStep
<1>2. t.interrupt_response = TRUE
  BY <1>1 DEF ItemMoves, Interrupting, OneItemInv
<1>3. ASSUME NEW e \in wire', e.type = "output_item.added"
      PROVE  /\ e.response # NoId
             /\ e.response = t.current_response_id =>
                  t.output_item_added /\ e.item = t.current_item_id
  <2>1. CASE e \in said
    <3>1. /\ e.response = t.current_response_id /\ e.item = t.current_item_id
          /\ t.output_item_added
      BY <1>1, <1>3, <2>1 DEF ItemSays
    <3>2. t.current_response_id # NoId
      BY <1>1, <3>1 DEF Good, Coherent
    <3> QED  BY <3>1, <3>2
  <2>2. CASE e \in wire /\ e.response = t.current_response_id
    <3>1. /\ e.response # NoId /\ e.response \in Nat /\ e.response < s.next_response
          /\ e.response = s.current_response_id =>
               s.output_item_added /\ e.item = s.current_item_id
      BY <1>3, <2>2 DEF OneItemInv, IInv, WireInv, Event
    <3>2. s.next_response \in Nat
      BY <1>1, ConnFieldTypes DEF Good
    <3>3. Kept(s, t) /\ ~Ended(s, t)
      BY <1>1, <2>2, <3>1, <3>2 DEF Opened, Ended
    <3>4. s.output_item_added /\ e.item = s.current_item_id
      BY <2>2, <3>1, <3>3 DEF Kept
    <3>5. t.output_item_added /\ t.current_item_id = s.current_item_id
      BY Zenon, <1>1, <3>3, <3>4 DEF ItemMoves, OneItemInv
    <3> QED  BY <3>1, <3>4, <3>5
  <2>3. CASE e \in wire /\ e.response # t.current_response_id
    BY <1>3, <2>3 DEF OneItemInv
  <2> QED  BY <1>1, <2>1, <2>2, <2>3
<1>4. OneItemPerResponse'
  <2> SUFFICES ASSUME NEW e \in wire', NEW f \in wire',
                      e.type = "output_item.added", f.type = e.type, e.response = f.response
               PROVE  e = f
    BY DEF OneItemPerResponse
  <2>1. e \in Event /\ f \in Event
    BY DEF IInv, TypeOK
  <2>2. CASE e \in wire /\ f \in wire
    BY <2>2 DEF OneItemInv, OneItemPerResponse
  <2>3. CASE e \in said \/ f \in said
    <3>1. e.response = t.current_response_id
      BY <1>1, <2>3 DEF ItemSays
    <3>2. e.item = f.item
      BY <1>3, <3>1
    <3> QED  BY <2>1, <3>2 DEF Event
  <2> QED  BY <1>1, <2>2, <2>3
<1>5. ItemsClosed'
  <2> SUFFICES ASSUME NEW e \in wire', e.type = "output_item.added", e.response \in DoneIds'
               PROVE  e.item \in DoneItems'
    BY DEF ItemsClosed
  <2>1. e.response # t.current_response_id
    BY DoneIdsFacts DEF DoneIds, IInv, WireInv
  <2>2. e \in wire
    BY <1>1, <2>1 DEF ItemSays
  <2>3. DoneItems \subseteq DoneItems'
    BY <1>1 DEF DoneItems
  <2>4. CASE e.response \in DoneIds
    BY <2>2, <2>3, <2>4 DEF OneItemInv, ItemsClosed
  <2>5. CASE e.response \notin DoneIds
    <3>1. Ended(s, t) /\ e.response = s.current_response_id
      BY <2>5, DoneIdsStep
    <3>2. s.output_item_added /\ e.item = s.current_item_id
      BY <2>2, <3>1 DEF OneItemInv
    <3>3. PICK d \in said : d.type = "output_item.done"
      BY <1>1, <3>1, <3>2 DEF ItemSays
    <3>4. d.item = s.current_item_id /\ d \in wire'
      BY <1>1, <3>3 DEF ItemSays
    <3> QED  BY <3>2, <3>3, <3>4 DEF DoneItems
  <2> QED  BY <2>4, <2>5
<1> QED  BY <1>2, <1>3, <1>4, <1>5 DEF OneItemInv

\* Where speech always interrupts, what a client that follows the protocol strictly
\* relies on holds event by event: order, attachment, one item for a response, and
\* every item closed with its response.
THEOREM WellFormed == Interrupting => (Spec => []StreamWellFormed)
<1> SUFFICES ASSUME Interrupting PROVE Spec => []StreamWellFormed
  OBVIOUS
<1>1. Init => OneItemInv
  BY OneItemInit
<1>2. IInv /\ IInv' /\ OneItemInv /\ [Next]_vars => OneItemInv'
  <2>1. ASSUME IInv, IInv', OneItemInv, Next
        PROVE  OneItemInv'
    BY <2>1, OneItemStep
  <2>2. ASSUME OneItemInv, UNCHANGED vars
        PROVE  OneItemInv'
    BY <2>2 DEF vars, OneItemInv, OneItemPerResponse, ItemsClosed, DoneIds, DoneItems
  <2> QED  BY <2>1, <2>2
<1>3. Spec => []OneItemInv
  BY <1>1, <1>2, Invariance, PTL DEF Spec
<1>4. (BetweenCreatedAndDone /\ AudioAttached /\ ProtocolOrder) /\ OneItemInv => StreamWellFormed
  BY DEF OneItemInv, StreamWellFormed
<1> QED  BY <1>3, <1>4, AudioHasItsItem, PTL

-----------------------------------------------------------------------------
(* The books.  The counters are folded by functions on records of numbers,  *)
(* so the proof is arithmetic counter by counter: what a handler adds to    *)
(* the live counters or moves to the totals is what it adds to metered.     *)

CountersTyped ==
  /\ usage \in UsageMetrics /\ total \in UsageMetrics /\ metered \in UsageMetrics
  /\ duration \in Nat
  /\ owed \in [lengths : Seq(Nat), right : BOOLEAN]
  /\ registered \in BOOLEAN

\* The inductive invariant.
UInv == CountersTyped /\ UsageConserved

\* A rollup of counters is counters.
LEMMA RollupTyped ==
  ASSUME NEW u \in UsageMetrics, NEW v \in UsageMetrics
  PROVE  Rollup(u, v) \in UsageMetrics
BY DEF Rollup, UsageMetrics

\* So is one counter's increment.
LEMMA CountTyped ==
  ASSUME NEW c \in Counters, NEW n \in Nat
  PROVE  Count(c, n) \in UsageMetrics
BY DEF Count, UsageMetrics

LEMMA UnusedTyped == Unused \in UsageMetrics
BY DEF Unused, UsageMetrics

\* A handler that ends no response keeps the books (every caller of Use).
LEMMA UseConserves ==
  ASSUME UInv, NEW used \in UsageMetrics, Use(used), Found
  PROVE  /\ usage' \in UsageMetrics /\ total' \in UsageMetrics
         /\ metered' \in UsageMetrics
         /\ UsageConserved'
<1>1. usage' \in UsageMetrics /\ total' \in UsageMetrics /\ metered' \in UsageMetrics
  BY RollupTyped DEF UInv, CountersTyped, Use
<1>2. /\ registered = TRUE /\ registered' = TRUE
  BY DEF Found, UInv, CountersTyped
<1>3. metered = Rollup(total, usage)
  BY <1>2 DEF UInv, UsageConserved, PerSession
<1>4. Rollup(total', usage') = metered'
  BY <1>3 DEF Use, Rollup, UsageMetrics, UInv, CountersTyped
<1> QED
  BY <1>1, <1>2, <1>4 DEF UsageConserved, PerSession

\* So does the end of a response (_end_response), with what follows it.
LEMMA FoldConserves ==
  ASSUME UInv, NEW status \in Statuses, NEW used \in UsageMetrics, Fold(status, used), Found
  PROVE  /\ usage' \in UsageMetrics /\ total' \in UsageMetrics
         /\ metered' \in UsageMetrics
         /\ UsageConserved'
<1> DEFINE one == Count(status, 1)
<1>0. one \in UsageMetrics
  BY CountTyped DEF Statuses, Counters
<1>1. /\ usage' = Rollup(Unused, used)
      /\ total' = Rollup(total, Rollup(usage, one))
      /\ metered' = Rollup(metered, Rollup(one, used))
  BY DEF Fold, Cleared
<1>2. usage' \in UsageMetrics /\ total' \in UsageMetrics /\ metered' \in UsageMetrics
  BY <1>0, <1>1, RollupTyped, UnusedTyped DEF UInv, CountersTyped
<1>3. /\ registered = TRUE /\ registered' = TRUE
  BY DEF Found, UInv, CountersTyped
<1>4. metered = Rollup(total, usage)
  BY <1>3 DEF UInv, UsageConserved, PerSession
<1> HIDE DEF one
<1>5. Rollup(total', usage') = metered'
  BY <1>0, <1>1, <1>4 DEF Rollup, Unused, UsageMetrics, UInv, CountersTyped
<1> QED
  BY <1>2, <1>3, <1>5 DEF UsageConserved, PerSession

LEMMA InitConserves == MeteringInit => UInv
<1> SUFFICES ASSUME MeteringInit PROVE UInv
  OBVIOUS
<1>1. CountersTyped
  BY UnusedTyped DEF MeteringInit, CountersTyped
<1>2. UsageConserved
  BY DEF MeteringInit, UsageConserved, PerSession, Rollup, Unused
<1> QED
  BY <1>1, <1>2 DEF UInv

LEMMA TimedNat ==
  ASSUME NEW length \in Nat, Timed(length)
  PROVE  duration' \in Nat
BY DEF Timed

LEMMA StepConserves == UInv /\ [MeteringNext]_allVars => UInv'
<1> SUFFICES ASSUME UInv, [MeteringNext]_allVars PROVE UInv'
  OBVIOUS
<1> DEFINE Books == /\ usage' \in UsageMetrics /\ total' \in UsageMetrics
                    /\ metered' \in UsageMetrics
                    /\ UsageConserved'
           Rest  == /\ duration' \in Nat /\ registered' \in BOOLEAN
                    /\ owed' \in [lengths : Seq(Nat), right : BOOLEAN]
<1>1. SUFFICES Books /\ Rest
  BY DEF UInv, CountersTyped
<1>2. ASSUME UNCHANGED <<usage, total, metered, registered>>
      PROVE  Books
  BY <1>2 DEF UInv, CountersTyped, UsageConserved, PerSession
<1>3. CASE Unmetered
  BY <1>2, <1>3, TimedNat DEF Unmetered, Found, UInv, CountersTyped
<1>4. CASE AudioOut
  BY <1>2, <1>4, TimedNat DEF AudioOut, Found, UInv, CountersTyped
<1>5. CASE ResponseEnds
  <2>1. CASE Ending
    BY <2>1, <1>5, FoldConserves, UnusedTyped, TimedNat
       DEF ResponseEnds, Found, UInv, CountersTyped
  <2>2. CASE ~Ending
    BY <2>2, <1>2, <1>5, TimedNat DEF ResponseEnds, Found, UInv, CountersTyped
  <2> QED
    BY <2>1, <2>2
<1>6. CASE TurnStarts
  <2>1. Count("turns", 1) \in UsageMetrics /\ "cancelled" \in Statuses
    BY CountTyped DEF Counters, Statuses
  <2>2. Books
    BY <1>6, <2>1, FoldConserves, UseConserves DEF TurnStarts
  <2> QED
    BY <2>2, <1>6, TimedNat DEF TurnStarts, Found, UInv, CountersTyped
<1>7. CASE TurnStops
  <2>1. PICK length \in Durations :
          /\ Timed(IF length = 0 THEN duration ELSE length)
          /\ owed' = IF length = 0 THEN owed
                     ELSE [owed EXCEPT !.lengths = Append(@, length)]
    BY <1>7 DEF TurnStops
  <2>2. length \in Nat
    BY DurationsAssumption
  <2>3. duration' \in Nat
    BY <2>1, <2>2, TimedNat DEF UInv, CountersTyped
  <2>4. owed' \in [lengths : Seq(Nat), right : BOOLEAN]
    <3>1. owed \in [lengths : Seq(Nat), right : BOOLEAN]
      BY DEF UInv, CountersTyped
    <3>2. Append(owed.lengths, length) \in Seq(Nat)
      BY <2>2, <3>1
    <3> QED  BY <2>1, <3>1, <3>2
  <2> QED
    BY <1>2, <1>7, <2>3, <2>4 DEF TurnStops, Found, UInv, CountersTyped
<1>8. CASE Transcribed
  <2>1. Count("audio", duration) \in UsageMetrics
    BY CountTyped DEF UInv, CountersTyped, Counters
  <2>2. Books
    BY <1>8, <2>1, UseConserves DEF Transcribed
  <2>3. owed' \in [lengths : Seq(Nat), right : BOOLEAN]
    <3> DEFINE right == owed.right /\ duration = Head(owed.lengths)
    <3>1. Tail(owed.lengths) \in Seq(Nat)
      BY <1>8 DEF Transcribed, UInv, CountersTyped
    <3>2. right \in BOOLEAN
      BY Zenon DEF UInv, CountersTyped
    <3>3. owed' = [lengths |-> Tail(owed.lengths), right |-> right]
      BY <1>8 DEF Transcribed
    <3> HIDE DEF right
    <3> QED  BY <3>1, <3>2, <3>3
  <2> QED
    BY <2>2, <2>3, <1>8, TimedNat DEF Transcribed, Found, UInv, CountersTyped
<1>9. CASE AssistantSays
  <2>1. Count("tool_calls", CallsIn(out')) \in UsageMetrics
    BY CountTyped DEF CallsIn, Counters
  <2>2. Books
    BY <1>9, <2>1, UseConserves DEF AssistantSays
  <2> QED
    BY <2>2, <1>9, TimedNat DEF AssistantSays, Found, UInv, CountersTyped
<1>10. CASE OnTokenUsage
  <2>1. Count("tokens", 1) \in UsageMetrics
    BY CountTyped DEF Counters
  <2>2. Books
    BY <1>10, <2>1, UseConserves DEF OnTokenUsage
  <2> QED
    BY <2>2, <1>10 DEF OnTokenUsage, Found, UInv, CountersTyped
<1>11. CASE Unregister
  <2>1. total' \in UsageMetrics /\ UNCHANGED <<usage, metered, duration, owed>>
    BY <1>11, RollupTyped DEF Unregister, Remainder, UInv, CountersTyped
  <2>2. metered = Rollup(total, usage)
    BY <1>11 DEF Unregister, UInv, UsageConserved, PerSession
  <2>3. Rollup(total', Unused) = metered
    BY <2>2, <1>11
       DEF Unregister, Remainder, Rollup, Unused, UsageMetrics, UInv, CountersTyped
  <2>4. UsageConserved'
    BY <2>1, <2>3, <1>11 DEF UsageConserved, PerSession, Unregister
  <2> QED
    BY <2>1, <2>4, <1>11 DEF Unregister, UInv, CountersTyped
<1>12. CASE UNCHANGED allVars
  BY <1>2, <1>12 DEF allVars, metering, UInv, CountersTyped
<1> QED
  BY <1>3, <1>4, <1>5, <1>6, <1>7, <1>8, <1>9, <1>10, <1>11, <1>12 DEF MeteringNext

\* However responses end, are cut short and sessions go, /v1/usage counts each
\* token, second, turn and call once (service.py:504, response.py:57).
THEOREM Conserved == MeteringSpec => []UsageConserved
<1>1. UInv => UsageConserved
  BY DEF UInv
<1> QED
  BY InitConserves, StepConserves, <1>1, PTL DEF MeteringSpec

-----------------------------------------------------------------------------
(* The count of responses.  response_usage never holds one: the status of a *)
(* response is added to what is folded, and the fold clears the rest.       *)

\* The inductive invariant of the books and the responses together.
BooksInv ==
  /\ IInv /\ UInv
  /\ usage.completed = 0 /\ usage.cancelled = 0
  /\ IsFiniteSet(DoneIds)
  /\ ResponsesCounted

LEMMA InitBooks == MeteringInit => BooksInv
<1> SUFFICES ASSUME MeteringInit PROVE BooksInv
  OBVIOUS
<1>1. IInv /\ UInv
  BY InitInv, InitConserves DEF MeteringInit
<1>2. /\ usage.completed = 0 /\ usage.cancelled = 0
      /\ total.completed = 0 /\ total.cancelled = 0
  BY DEF MeteringInit, Unused, Counters
<1>3. DoneIds = {}
  BY DEF MeteringInit, Init, DoneIds
<1>4. IsFiniteSet(DoneIds) /\ Cardinality(DoneIds) = 0
  BY <1>3, FS_EmptySet
<1> QED  BY <1>1, <1>2, <1>4 DEF BooksInv, ResponsesCounted

\* What a handler is to the counters of responses.
NoneFolded ==
  /\ EndsNothing
  /\ total' = total
  /\ \E used \in UsageMetrics : used.completed = 0 /\ used.cancelled = 0 /\ usage' = Rollup(usage, used)
OneFolded ==
  /\ Ended(conn, conn')
  /\ \E status \in Statuses, used \in UsageMetrics :
       used.completed = 0 /\ used.cancelled = 0 /\ Fold(status, used)

LEMMA NoneFoldedStep ==
  ASSUME BooksInv, Next, NoneFolded
  PROVE  usage'.completed = 0 /\ usage'.cancelled = 0 /\ IsFiniteSet(DoneIds)' /\ ResponsesCounted'
<1>1. DoneIds' = DoneIds
  BY DoneIdsStep DEF NoneFolded, EndsNothing, BooksInv
<1>2. usage'.completed = 0 /\ usage'.cancelled = 0
  BY DEF BooksInv, NoneFolded, Rollup, Counters
<1> QED  BY <1>1, <1>2 DEF NoneFolded, BooksInv, ResponsesCounted

LEMMA OneFoldedStep ==
  ASSUME BooksInv, Next, OneFolded
  PROVE  usage'.completed = 0 /\ usage'.cancelled = 0 /\ IsFiniteSet(DoneIds)' /\ ResponsesCounted'
<1>1. PICK status \in Statuses, used \in UsageMetrics :
        used.completed = 0 /\ used.cancelled = 0 /\ Fold(status, used)
  BY DEF OneFolded
<1>2. DoneIds' = DoneIds \cup {conn.current_response_id}
  BY DoneIdsStep DEF OneFolded, BooksInv
<1>3. conn.current_response_id \notin DoneIds
  BY DoneIdsFacts DEF BooksInv
<1>4. /\ IsFiniteSet(DoneIds') /\ Cardinality(DoneIds') = Cardinality(DoneIds) + 1
      /\ Cardinality(DoneIds) \in Nat
  BY <1>2, <1>3, FS_AddElement, FS_CardinalityType DEF BooksInv
<1>5. usage'.completed = 0 /\ usage'.cancelled = 0
  BY <1>1 DEF Fold, Cleared, Unused, Rollup, Counters
<1>6. total'.completed + total'.cancelled = total.completed + total.cancelled + 1
  <2>1. /\ total.completed \in Nat /\ total.cancelled \in Nat
        /\ usage.completed = 0 /\ usage.cancelled = 0
    BY DEF BooksInv, UInv, CountersTyped, UsageMetrics, Counters
  <2>2. /\ total'.completed = total.completed + (0 + Count(status, 1).completed)
        /\ total'.cancelled = total.cancelled + (0 + Count(status, 1).cancelled)
    BY <1>1, <2>1 DEF Fold, Rollup, Counters
  <2>3. /\ Count(status, 1).completed = (IF status = "completed" THEN 1 ELSE 0)
        /\ Count(status, 1).cancelled = (IF status = "cancelled" THEN 1 ELSE 0)
    BY DEF Count, Counters
  <2>4. status = "completed" \/ status = "cancelled"
    BY DEF Statuses
  <2> QED  BY <2>1, <2>2, <2>3, <2>4
<1> QED  BY <1>4, <1>5, <1>6 DEF BooksInv, ResponsesCounted

\* A handler folds a response exactly when it ends one.
LEMMA FoldedWhenEnded ==
  ASSUME BooksInv, MeteringNext, ~OnTokenUsage, ~Unregister
  PROVE  Next /\ (NoneFolded \/ OneFolded)
<1>0. Good(conn)
  BY GoodConn DEF BooksInv, IInv
<1>1. ASSUME NEW used \in UsageMetrics, used.completed = 0, used.cancelled = 0, EndsNothing,
             Use(used)
      PROVE  NoneFolded
  BY <1>1 DEF NoneFolded, Use
<1>2. ASSUME EndsNothing, UNCHANGED <<usage, total>>
      PROVE  NoneFolded
  <2>1. usage = Rollup(usage, Unused)
    BY DEF Rollup, Unused, BooksInv, UInv, CountersTyped, UsageMetrics
  <2>2. Unused.completed = 0 /\ Unused.cancelled = 0
    BY DEF Unused, Counters
  <2> QED  BY <1>2, <2>1, <2>2, UnusedTyped DEF NoneFolded
<1>3. CASE Unmetered \/ AudioOut \/ TurnStops
  BY <1>0, <1>2, <1>3, OthersEndNothing DEF Unmetered, AudioOut, TurnStops, Next
<1>4. CASE ResponseEnds
  <2>1. CASE Ending
    <3>1. Unused.completed = 0 /\ Unused.cancelled = 0 /\ Unused \in UsageMetrics
      BY UnusedTyped DEF Unused, Counters
    <3>2. Ended(conn, conn')
      BY <1>0, <1>4, <2>1, EndingEnds DEF ResponseEnds, Ending
    <3> QED  BY <1>4, <2>1, <3>1, <3>2 DEF ResponseEnds, OneFolded, Next
  <2>2. CASE ~Ending
    <3>1. UNCHANGED conn
      BY <1>4, <2>2 DEF ResponseEnds, Ending, FinishAudioResponse, Finished, Return
    <3>2. EndsNothing
      BY <1>0, <3>1, StaysOpen DEF Kept
    <3> QED  BY <1>2, <1>4, <2>2, <3>2 DEF ResponseEnds, Next
  <2> QED  BY <2>1, <2>2
<1>5. CASE TurnStarts
  <2> DEFINE used == Count("turns", 1)
  <2>1. used \in UsageMetrics /\ used.completed = 0 /\ used.cancelled = 0
    <3>1. used \in UsageMetrics
      BY CountTyped DEF Counters
    <3> QED  BY <3>1 DEF Count, Counters
  <2>2. OnSpeechStarted
        /\ IF Ending /\ conn.interrupt_response THEN Fold("cancelled", used) ELSE Use(used)
    BY <1>5 DEF TurnStarts
  <2> HIDE DEF used
  <2>3. CASE Ending /\ conn.interrupt_response
    <3>1. Ended(conn, conn')
      BY <1>0, <2>2, <2>3, EndingEnds DEF Ending
    <3>2. "cancelled" \in Statuses
      BY DEF Statuses
    <3> QED  BY <2>1, <2>2, <2>3, <3>1, <3>2 DEF OneFolded, Next
  <2>4. CASE ~(Ending /\ conn.interrupt_response)
    <3>1. EndsNothing
      BY <1>0, <2>2, <2>4, OthersEndNothing DEF Ending
    <3> QED  BY <1>1, <2>1, <2>2, <2>4, <3>1 DEF Next
  <2> QED  BY <2>3, <2>4
<1>6. CASE Transcribed
  <2> DEFINE used == Count("audio", duration)
  <2>1. used \in UsageMetrics /\ used.completed = 0 /\ used.cancelled = 0
    <3>1. used \in UsageMetrics
      BY CountTyped DEF Counters, BooksInv, UInv, CountersTyped
    <3> QED  BY <3>1 DEF Count, Counters
  <2>2. OnTranscriptionCompleted /\ Use(used)
    BY <1>6 DEF Transcribed
  <2> HIDE DEF used
  <2> QED  BY <1>0, <1>1, <2>1, <2>2, OthersEndNothing DEF Next
<1>7. CASE AssistantSays
  <2> DEFINE used == Count("tool_calls", CallsIn(out'))
  <2>1. used \in UsageMetrics /\ used.completed = 0 /\ used.cancelled = 0
    <3>1. used \in UsageMetrics
      BY CountTyped DEF Counters, CallsIn
    <3> QED  BY <3>1 DEF Count, Counters
  <2>2. OnAssistantText /\ Use(used)
    BY <1>7 DEF AssistantSays
  <2> HIDE DEF used
  <2> QED  BY <1>0, <1>1, <2>1, <2>2, OthersEndNothing DEF Next
<1> QED  BY <1>3, <1>4, <1>5, <1>6, <1>7 DEF MeteringNext

LEMMA StepBooks == BooksInv /\ [MeteringNext]_allVars => BooksInv'
<1> SUFFICES ASSUME BooksInv, [MeteringNext]_allVars PROVE BooksInv'
  OBVIOUS
<1>1. UInv'
  BY StepConserves DEF BooksInv
<1> DEFINE Responses == /\ usage'.completed = 0 /\ usage'.cancelled = 0
                        /\ IsFiniteSet(DoneIds)' /\ ResponsesCounted'
<1>2. CASE MeteringNext /\ ~OnTokenUsage /\ ~Unregister
  <2>1. Next /\ (NoneFolded \/ OneFolded)
    BY <1>2, FoldedWhenEnded
  <2>2. IInv'
    BY <2>1, StepInv DEF BooksInv
  <2>3. Responses
    BY <2>1, NoneFoldedStep, OneFoldedStep
  <2> QED  BY <1>1, <2>2, <2>3 DEF BooksInv
<1>3. CASE OnTokenUsage
  <2>1. conn' = conn /\ wire' = wire /\ speechItem' = speechItem /\ out' = << >>
    BY <1>3 DEF OnTokenUsage
  <2>2. IInv'
    BY <2>1 DEF BooksInv, IInv, TypeOK, ConnCoherent, WireInv
  <2>3. UNCHANGED DoneIds
    BY <2>1 DEF DoneIds
  <2>4. usage'.completed = 0 /\ usage'.cancelled = 0 /\ UNCHANGED total
    BY <1>3 DEF OnTokenUsage, Use, Rollup, Count, Counters, BooksInv
  <2> QED  BY <1>1, <2>2, <2>3, <2>4 DEF BooksInv, ResponsesCounted
<1>4. CASE Unregister
  <2>1. UNCHANGED <<conn, out, wire, speechItem, usage>>
    BY <1>4 DEF Unregister, vars
  <2>2. IInv'
    BY <2>1 DEF BooksInv, IInv, TypeOK, ConnCoherent, WireInv
  <2>3. UNCHANGED DoneIds
    BY <2>1 DEF DoneIds
  <2>4. total'.completed = total.completed /\ total'.cancelled = total.cancelled
    <3>1. total.completed \in Nat /\ total.cancelled \in Nat
      BY DEF BooksInv, UInv, CountersTyped, UsageMetrics, Counters
    <3> QED  BY <1>4, <3>1 DEF Unregister, Remainder, Rollup, Counters, BooksInv
  <2> QED  BY <1>1, <2>1, <2>2, <2>3, <2>4 DEF BooksInv, ResponsesCounted
<1>5. CASE UNCHANGED allVars
  <2>1. UNCHANGED <<conn, out, wire, speechItem, usage, total>>
    BY <1>5 DEF allVars, vars, metering
  <2>2. IInv'
    BY <2>1 DEF BooksInv, IInv, TypeOK, ConnCoherent, WireInv
  <2>3. UNCHANGED DoneIds
    BY <2>1 DEF DoneIds
  <2> QED  BY <1>1, <2>1, <2>2, <2>3 DEF BooksInv, ResponsesCounted
<1> QED  BY <1>2, <1>3, <1>4, <1>5

\* The counters stay what they are declared to be, and each response.done the
\* client is sent is counted once, as completed or as cancelled.
THEOREM CountersAreSound == MeteringSpec => []CountersSound
<1>1. BooksInv => CountersSound
  BY DEF BooksInv, IInv, UInv, CountersTyped, CountersSound, MeteringTypeOK
<1> QED  BY InitBooks, StepBooks, <1>1, PTL DEF MeteringSpec

=============================================================================
