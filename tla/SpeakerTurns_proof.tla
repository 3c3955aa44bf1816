------------------------- MODULE SpeakerTurns_proof -------------------------
(***************************************************************************)
(* The speaker-id service and the session that calls it, for any number of *)
(* speakers, links, requests, turns and restarts: no sample outlives its   *)
(* speaker and the mirror is the table whenever the lock is free (Store);  *)
(* a name goes with a voice that was enrolled, with the turn it was asked  *)
(* for and with the item that was announced (Names); a link's count is the *)
(* number of samples it left (Counts).                                     *)
(*                                                                         *)
(* The inductive invariants, each but the first on top of another:         *)
(*   IInv  who holds the lock, what the mirror lacks while it is held, and *)
(*         what a request that has been admitted may rely on: its speaker  *)
(*         is there, or has been deleted by this very process, and then    *)
(*         the foreign keys are on;                                        *)
(*   SInv  IInv, the types and what an endpoint finds in its request;      *)
(*   VInv  SInv, and the mirror's two fields fit up to the shorter one,    *)
(*         but for a deletion's reload; whoever reads across it is torn;   *)
(*   NInv  VInv, a turn's label is what its own call returned, a transcript*)
(*         is on its way once, and a job holds the item it was announced   *)
(*         under;                                                          *)
(*   CInv  SInv, and what a link has left in the store is what it counts,  *)
(*         has yet to count, or was kept from counting by a restart.       *)
(***************************************************************************)
EXTENDS SpeakerTurns, FiniteSetTheorems, TLAPS

\* A request is a record of these fields, whatever is in them.
Fields == {"op", "pc", "id", "inv", "clip", "mat", "verdicts", "torn", "status"}

ReqShaped ==
  /\ req = [r \in Requests |-> req[r]]
  /\ \A r \in Requests : req[r] = [f \in Fields |-> req[r][f]]

Link(i) == [state |-> invites[i].state, id |-> invites[i].id, revoked |-> invites[i].revoked,
            expired |-> invites[i].expired, samples |-> invites[i].samples]
LinksShaped ==
  invites = [i \in Invites |-> invites[i]] /\ \A i \in Invites : invites[i] = Link(i)

Shaped ==
  /\ ReqShaped
  /\ mirror = [ids |-> mirror.ids, mat |-> mirror.mat]
  /\ LinksShaped
  /\ fk \in BOOLEAN
  /\ past = [ids |-> past.ids, enrolled |-> past.enrolled, uncounted |-> past.uncounted]

Writing(r) == req[r].pc \in {"ids", "mat"}

\* The lock is held exactly while the mirror is being reloaded.
LockHeld ==
  /\ lock \in Requests \cup {Nobody}
  /\ \A r \in Requests : Writing(r) <=> lock = r

HalfLoaded == \A r \in Requests : req[r].pc = "mat" => mirror.ids = IdsOf(rows)

Remembered == consent \subseteq profiles /\ profiles \subseteq past.ids

\* What a request relies on once it has been admitted.
ReliesOn(r) ==
  /\ req[r].pc = "insert" => req[r].op \in Embeds
  /\ req[r].op = "sample" /\ req[r].pc \in {"read", "insert"} => req[r].id \in profiles \/ fk
  /\ req[r].op = "invite_sample" /\ req[r].pc \in {"read", "insert"} =>
       /\ req[r].id \in past.ids
       /\ req[r].id \in consent \/ (fk /\ req[r].id \notin profiles)
  /\ req[r].op = "invite" /\ req[r].pc = "write" => req[r].id \in profiles \/ fk

Admission == \A r \in Requests : ReliesOn(r)

\* Requests that have not arrived do nothing.
Numbered == arrived \in Nat /\ \A r \in Requests : r > arrived => req[r].pc = "free"

IInv ==
  Shaped /\ Numbered /\ LockHeld /\ HalfLoaded /\ Remembered /\ Admission /\ StoreSound

-----------------------------------------------------------------------------
(* How requests change. *)

\* All that the invariant says of a request stays as it is.
Stays(q) == /\ req'[q].op = req[q].op /\ req'[q].pc = req[q].pc
            /\ req'[q].id = req[q].id /\ req'[q].inv = req[q].inv

Moves(r) == ReqShaped' /\ \A q \in Requests \ {r} : Stays(q)

LEMMA GotoMoves ==
  ASSUME ReqShaped, NEW r \in Requests, NEW pc, Goto(r, pc)
  PROVE  /\ Moves(r) /\ req'[r].pc = pc
         /\ req'[r].op = req[r].op /\ req'[r].id = req[r].id /\ req'[r].inv = req[r].inv
BY DEF ReqShaped, Fields, Goto, Moves, Stays

LEMMA AnswerMoves ==
  ASSUME ReqShaped, NEW r \in Requests, NEW status, Answer(r, status)
  PROVE  Moves(r) /\ req'[r].pc = "answered"
BY DEF ReqShaped, Fields, Answer, Moves, Stays

\* A step that leaves the lock, the rows and the mirror alone.
Aside(r) ==
  /\ Moves(r) /\ UNCHANGED <<rows, lock, mirror, arrived>>
  /\ req[r].pc \notin {"ids", "mat", "free"} /\ req'[r].pc \notin {"ids", "mat"}

LEMMA NumberedStep ==
  ASSUME Numbered, NEW r \in Requests, Moves(r), UNCHANGED arrived, req[r].pc # "free"
  PROVE  Numbered'
BY DEF Numbered, Moves, Stays

LEMMA AsideStep ==
  ASSUME LockHeld, HalfLoaded, MirrorFresh, Numbered, NEW r \in Requests, Aside(r)
  PROVE  LockHeld' /\ HalfLoaded' /\ MirrorFresh' /\ Numbered'
<1>1. \A q \in Requests : Writing(q)' <=> Writing(q)
  BY DEF Aside, Moves, Stays, Writing
<1>2. \A q \in Requests : req'[q].pc = "mat" => req[q].pc = "mat"
  BY DEF Aside, Moves, Stays
<1>3. Numbered'
  BY NumberedStep DEF Aside
<1> QED  BY <1>1, <1>2, <1>3 DEF Aside, LockHeld, HalfLoaded, MirrorFresh

\* What the admitted rely on is not taken from them, but by a deletion, which
\* turns the foreign keys on.
Kept ==
  /\ \A id \in profiles : id \in profiles' \/ fk'
  /\ fk => fk'
  /\ past.ids \subseteq past'.ids
  /\ \A id \in past.ids :
       /\ id \in consent => id \in consent' \/ (fk' /\ id \notin profiles')
       /\ fk /\ id \notin profiles => id \in consent' \/ id \notin profiles'

LEMMA KeptStep ==
  ASSUME Admission, Kept, NEW q \in Requests, Stays(q)
  PROVE  ReliesOn(q)'
BY DEF Admission, Kept, Stays, ReliesOn

\* A step that takes no speaker, no consent and no speaker's link away.
Adds ==
  /\ profiles \subseteq profiles' /\ consent \subseteq consent'
  /\ \A i \in Invites : Live(i)' => (Live(i) /\ invites'[i].id = invites[i].id)
                                    \/ invites'[i].id \in profiles'
  /\ UNCHANGED rows

LEMMA AddsStep ==
  ASSUME NoOrphans, InviteeConsented, Adds
  PROVE  NoOrphans' /\ InviteeConsented'
BY DEF NoOrphans, InviteeConsented, Adds, Live

\* What is left to show of a step of r that neither writes rows nor reloads.
LEMMA Finish ==
  ASSUME IInv, NEW r \in Requests, Aside(r), Kept, Adds, Shaped', Remembered', ReliesOn(r)'
  PROVE  IInv'
<1>1. LockHeld' /\ HalfLoaded' /\ MirrorFresh' /\ Numbered'
  BY AsideStep DEF IInv, StoreSound
<1>2. NoOrphans' /\ InviteeConsented'
  BY AddsStep DEF IInv, StoreSound
<1>3. \A q \in Requests \ {r} : ReliesOn(q)'
  BY KeptStep DEF IInv, Aside, Moves
<1> QED  BY <1>1, <1>2, <1>3 DEF IInv, StoreSound, Admission

\* A step that changes nothing but the request of r.
LEMMA FinishReading ==
  ASSUME IInv, NEW r \in Requests, Moves(r),
         UNCHANGED <<tables, fk, lock, mirror, past, arrived>>,
         req[r].pc \notin {"ids", "mat", "free"}, req'[r].pc \notin {"ids", "mat"}, ReliesOn(r)'
  PROVE  IInv'
<1>1. Aside(r) /\ Kept /\ Adds
  BY DEF Aside, Kept, Adds, Live, tables
<1>2. Shaped' /\ Remembered'
  BY DEF IInv, Shaped, LinksShaped, Link, Remembered, Moves, tables
<1> QED  BY <1>1, <1>2, Finish

-----------------------------------------------------------------------------
(* The steps that read. *)

LEMMA ValidateStep ==
  ASSUME IInv, NEW r \in Requests, Validate(r)
  PROVE  IInv'
<1>1. /\ UNCHANGED <<tables, fk, lock, mirror, past, arrived>> /\ req[r].pc = "arrived"
      /\ req[r].op \in AsyncOps \cup {"consent"}
  BY DEF Validate
<1>2. CASE Admitted(r) # 0
  <2>1. Moves(r) /\ req'[r].pc = "answered"
    BY <1>2, AnswerMoves DEF Validate, IInv, Shaped
  <2>2. ReliesOn(r)'
    BY <2>1 DEF ReliesOn
  <2> QED  BY <1>1, <2>1, <2>2, FinishReading
<1>3. CASE Admitted(r) = 0
  <2> DEFINE pc == IF req[r].op = "consent" THEN "write" ELSE "read"
             id == IF req[r].op \in InviteOps THEN invites[req[r].inv].id ELSE req[r].id
  <2>1. req' = [req EXCEPT ![r].pc = pc, ![r].id = id]
    BY <1>3 DEF Validate
  <2> HIDE DEF pc, id
  <2>2. /\ Moves(r) /\ req'[r].pc = pc /\ req'[r].id = id
        /\ req'[r].op = req[r].op
    BY <2>1 DEF IInv, Shaped, ReqShaped, Fields, Moves, Stays
  <2>3. pc \in {"read", "write"} /\ (req[r].op = "invite" => pc = "read")
    BY DEF pc
  <2>4. req[r].op = "sample" => id \in profiles
    BY <1>3 DEF id, Admitted, InviteOps
  <2>5. req[r].op = "invite_sample" => id \in consent /\ id \in past.ids
    <3> SUFFICES ASSUME req[r].op = "invite_sample" PROVE id \in consent /\ id \in past.ids
      OBVIOUS
    <3>1. id = invites[req[r].inv].id
      BY DEF id, InviteOps
    <3>2. invites[req[r].inv].id \in consent
      BY <1>3 DEF Admitted, InviteOps
    <3> QED  BY <3>1, <3>2 DEF IInv, Remembered
  <2>6. ReliesOn(r)'
    BY <1>1, <2>2, <2>3, <2>4, <2>5 DEF ReliesOn, tables
  <2> QED  BY <1>1, <2>2, <2>3, <2>6, FinishReading
<1> QED  BY <1>2, <1>3

LEMMA EmbedStep ==
  ASSUME IInv, NEW r \in Requests, Embed(r)
  PROVE  IInv'
<1>1. UNCHANGED <<tables, fk, lock, mirror, past, arrived>> /\ req[r].pc = "read"
  BY DEF Embed
<1>2. CASE Goto(r, IF req[r].op \in Embeds THEN "insert" ELSE "match")
  <2>1. /\ Moves(r) /\ req'[r].pc = (IF req[r].op \in Embeds THEN "insert" ELSE "match")
        /\ req'[r].op = req[r].op /\ req'[r].id = req[r].id
    BY <1>2, GotoMoves DEF IInv, Shaped
  <2>2. ReliesOn(r)'
    BY <1>1, <2>1 DEF IInv, Admission, ReliesOn, tables
  <2> QED  BY <1>1, <2>1, <2>2, FinishReading
<1>3. CASE req' = [req EXCEPT ![r].pc = "answered",
                  ![r].status = IF req[r].op \in Questions THEN 200 ELSE 400,
                  ![r].verdicts = IF req[r].op = "identify" THEN <<Unknown>> ELSE << >>]
  <2> DEFINE status == IF req[r].op \in Questions THEN 200 ELSE 400
             verdicts == IF req[r].op = "identify" THEN <<Unknown>> ELSE << >>
  <2>0. req' = [req EXCEPT ![r].pc = "answered", ![r].status = status, ![r].verdicts = verdicts]
    BY <1>3
  <2> HIDE DEF status, verdicts
  <2>1. Moves(r) /\ req'[r].pc = "answered"
    BY <2>0, SMTT(30) DEF IInv, Shaped, ReqShaped, Fields, Moves, Stays
  <2>2. ReliesOn(r)'
    BY <2>1 DEF ReliesOn
  <2> QED  BY <1>1, <2>1, <2>2, FinishReading
<1> QED  BY <1>2, <1>3 DEF Embed

LEMMA QueryStep ==
  ASSUME IInv, NEW r \in Requests, QueryMat(r) \/ QueryZip(r)
  PROVE  IInv'
<1>1. UNCHANGED <<tables, fk, lock, mirror, past, arrived>> /\ req[r].pc \in {"match", "zip"}
  BY DEF QueryMat, QueryZip
<1>2. Moves(r) /\ req'[r].pc \in {"zip", "answered", "match"}
  <2>1. CASE QueryMat(r)
    <3> DEFINE mat  == IF mirror.ids = << >> THEN << >> ELSE mirror.mat
               torn == \/ req[r].torn
                       \/ \E d \in Requests : req[d].op = "delete" /\ req[d].pc = "mat"
    <3>1. req' = [req EXCEPT ![r].pc = "zip", ![r].mat = mat, ![r].torn = torn]
      BY <2>1 DEF QueryMat
    <3> HIDE DEF mat, torn
    <3> QED  BY <3>1 DEF IInv, Shaped, ReqShaped, Fields, Moves, Stays
  <2>2. CASE QueryZip(r)
    <3>1. PICK v, last :
            req' = [req EXCEPT ![r].verdicts = Append(@, v), ![r].mat = << >>,
                               ![r].pc = IF last THEN "answered" ELSE "match",
                               ![r].status = IF last THEN 200 ELSE 0]
      BY <2>2, ZenonT(40) DEF QueryZip
    <3> QED  BY <3>1 DEF IInv, Shaped, ReqShaped, Fields, Moves, Stays
  <2> QED  BY <2>1, <2>2
<1>3. ReliesOn(r)'
  BY <1>2 DEF ReliesOn
<1> QED  BY <1>1, <1>2, <1>3, FinishReading

-----------------------------------------------------------------------------
(* The steps that write a speaker or a link. *)

\* A link that is changed stays the link of its speaker.
LEMMA LinkStep ==
  ASSUME IInv, NEW r \in Requests, TouchInvite(r) \/ RevokeInvite(r)
  PROVE  IInv'
<1>1. /\ UNCHANGED <<profiles, consent, rows, fk, lock, mirror, past, arrived>>
      /\ req[r].pc \in {"touch", "arrived"}
  BY DEF TouchInvite, RevokeInvite, At
<1>2. Moves(r) /\ req'[r].pc = "answered"
  BY AnswerMoves DEF TouchInvite, RevokeInvite, IInv, Shaped
<1>3. /\ LinksShaped'
      /\ \A i \in Invites : invites'[i].id = invites[i].id /\ invites'[i].state = invites[i].state
  <2> DEFINE i == req[r].inv
  <2>1. CASE UNCHANGED invites
    BY <2>1 DEF IInv, Shaped, LinksShaped, Link
  <2>2. CASE invites' = [invites EXCEPT ![i].samples = @ + 1]
    <3> DEFINE n == invites[i].samples + 1
    <3> HIDE DEF i, n
    <3>1. invites' = [j \in Invites |-> IF j = i THEN [invites[j] EXCEPT !.samples = n] ELSE invites[j]]
      BY <2>2 DEF IInv, Shaped, LinksShaped, n
    <3> QED  BY <3>1 DEF IInv, Shaped, LinksShaped, Link
  <2>3. CASE invites' = [invites EXCEPT ![i].revoked = TRUE]
    <3> DEFINE yes == TRUE
    <3> HIDE DEF i, yes
    <3>1. invites' = [j \in Invites |-> IF j = i THEN [invites[j] EXCEPT !.revoked = yes] ELSE invites[j]]
      BY <2>3 DEF IInv, Shaped, LinksShaped, yes
    <3> QED  BY <3>1 DEF IInv, Shaped, LinksShaped, Link
  <2>4. CASE TouchInvite(r)
    <3>1. UNCHANGED invites \/ invites' = [invites EXCEPT ![i].samples = @ + 1]
      BY <2>4, Zenon DEF TouchInvite
    <3> QED  BY <2>1, <2>2, <3>1
  <2>5. CASE RevokeInvite(r)
    <3>1. UNCHANGED invites \/ invites' = [invites EXCEPT ![i].revoked = TRUE]
      BY <2>5, Zenon DEF RevokeInvite
    <3> QED  BY <2>1, <2>3, <3>1
  <2> QED  BY <2>4, <2>5
<1>4. Aside(r) /\ Kept /\ Adds /\ Remembered' /\ ReliesOn(r)'
  BY <1>1, <1>2, <1>3 DEF Aside, Kept, Adds, Live, IInv, Remembered, ReliesOn
<1>5. Shaped'
  BY <1>1, <1>2, <1>3 DEF IInv, Shaped, LinksShaped, Link, Moves
<1> QED  BY <1>4, <1>5, Finish

LEMMA AddInviteStep ==
  ASSUME IInv, NEW r \in Requests, AddInvite(r)
  PROVE  IInv'
<1>1. /\ UNCHANGED <<profiles, consent, rows, fk, lock, mirror, past, arrived>>
      /\ req[r].pc = "write" /\ req[r].op = "invite"
  BY DEF AddInvite, Refused, At
<1>2. Moves(r) /\ req'[r].pc = "answered"
  BY AnswerMoves DEF AddInvite, Refused, IInv, Shaped
<1>3. /\ LinksShaped'
      /\ \A i \in Invites : Live(i)' => (Live(i) /\ invites'[i].id = invites[i].id)
                                       \/ invites'[i].id \in profiles
  <2>1. CASE fk /\ req[r].id \notin profiles
    BY <2>1 DEF AddInvite, IInv, Shaped, LinksShaped, Link, Live
  <2>2. CASE ~(fk /\ req[r].id \notin profiles)
    <3>1. req[r].id \in profiles
      BY <1>1, <2>2 DEF IInv, Admission, ReliesOn, Shaped
    <3>2. PICK i \in Invites : invites' = [invites EXCEPT ![i] =
                    [state |-> "live", id |-> req[r].id, revoked |-> FALSE,
                     expired |-> FALSE, samples |-> 0]]
      BY <2>2 DEF AddInvite
    <3> QED  BY <3>1, <3>2 DEF IInv, Shaped, LinksShaped, Link, Live
  <2> QED  BY <2>1, <2>2
<1>4. Aside(r) /\ Kept /\ Adds /\ Remembered' /\ ReliesOn(r)'
  BY <1>1, <1>2, <1>3 DEF Aside, Kept, Adds, IInv, Remembered, ReliesOn
<1>5. Shaped'
  BY <1>1, <1>2, <1>3 DEF IInv, Shaped, LinksShaped, Link, Moves
<1> QED  BY <1>4, <1>5, Finish

\* Consent is given; a speaker is created, with consent and maybe again, or for
\* a link, without consent and under an id nobody has had.
LEMMA SetConsentStep ==
  ASSUME IInv, NEW r \in Requests, SetConsent(r)
  PROVE  IInv'
<1>1. /\ UNCHANGED <<profiles, rows, invites, fk, lock, mirror, past, arrived>>
      /\ consent' = consent \cup ({req[r].id} \cap profiles)
      /\ req[r].pc = "write"
  BY DEF SetConsent, At
<1>2. Moves(r) /\ req'[r].pc = "answered"
  BY AnswerMoves DEF SetConsent, IInv, Shaped
<1>3. Aside(r) /\ Kept /\ Adds /\ Remembered' /\ ReliesOn(r)'
  BY <1>1, <1>2 DEF Aside, Kept, Adds, Live, IInv, Remembered, ReliesOn
<1>4. Shaped'
  BY <1>1, <1>2 DEF IInv, Shaped, LinksShaped, Link, Moves
<1> QED  BY <1>3, <1>4, Finish

LEMMA CreateSpeakerStep ==
  ASSUME IInv, NEW r \in Requests, CreateSpeaker(r)
  PROVE  IInv'
<1>1. /\ UNCHANGED <<rows, invites, fk, lock, mirror, arrived>>
      /\ profiles' = profiles \cup {req[r].id}
      /\ consent' = IF req[r].id \in profiles THEN consent ELSE consent \cup {req[r].id}
      /\ past' = [past EXCEPT !.ids = @ \cup {req[r].id}]
      /\ req[r].pc = "arrived" /\ req[r].op = "create"
  BY DEF CreateSpeaker, At
<1>2. Moves(r) /\ req'[r].pc = "answered"
  BY AnswerMoves DEF CreateSpeaker, IInv, Shaped
<1>3. /\ past'.ids = past.ids \cup {req[r].id}
      /\ past' = [ids |-> past'.ids, enrolled |-> past'.enrolled, uncounted |-> past'.uncounted]
  BY <1>1 DEF IInv, Shaped
<1>4. Aside(r) /\ Kept /\ Adds /\ Remembered' /\ ReliesOn(r)'
  BY <1>1, <1>2, <1>3 DEF Aside, Kept, Adds, Live, IInv, Remembered, ReliesOn
<1>5. Shaped'
  BY <1>1, <1>2, <1>3 DEF IInv, Shaped, LinksShaped, Link, Moves
<1> QED  BY <1>4, <1>5, Finish

LEMMA FindSpeakerStep ==
  ASSUME IInv, NEW r \in Requests, FindSpeaker(r)
  PROVE  IInv'
<1>1. /\ UNCHANGED <<consent, rows, invites, fk, lock, mirror, arrived>>
      /\ req[r].pc = "arrived" /\ req[r].op = "invite"
  BY DEF FindSpeaker, At
<1>2. CASE /\ req[r].id \in past.ids
           /\ IF req[r].id \in profiles THEN Goto(r, "write") ELSE Answer(r, 404)
           /\ UNCHANGED <<profiles, past>>
  <2>1. /\ Moves(r) /\ req'[r].pc \in {"write", "answered"}
        /\ req'[r].pc = "write" => req'[r].id \in profiles /\ req'[r].op = "invite"
    <3>1. CASE req[r].id \in profiles
      BY <1>1, <1>2, <3>1, GotoMoves DEF IInv, Shaped
    <3>2. CASE req[r].id \notin profiles
      BY <1>2, <3>2, AnswerMoves DEF IInv, Shaped
    <3> QED  BY <3>1, <3>2
  <2>2. ReliesOn(r)'
    BY <1>2, <2>1 DEF ReliesOn
  <2> QED  BY <1>1, <1>2, <2>1, <2>2, FinishReading DEF tables
<1>3. CASE /\ req[r].id \notin past.ids
           /\ profiles' = profiles \cup {req[r].id}
           /\ past' = [past EXCEPT !.ids = @ \cup {req[r].id}]
           /\ Goto(r, "write")
  <2>1. /\ Moves(r) /\ req'[r].pc = "write" /\ req'[r].id = req[r].id
        /\ req'[r].op = "invite"
    BY <1>1, <1>3, GotoMoves DEF IInv, Shaped
  <2>2. /\ past'.ids = past.ids \cup {req[r].id}
        /\ past' = [ids |-> past'.ids, enrolled |-> past'.enrolled, uncounted |-> past'.uncounted]
    BY <1>3 DEF IInv, Shaped
  <2>3. Aside(r) /\ Kept /\ Adds /\ Remembered' /\ ReliesOn(r)'
    BY <1>1, <1>3, <2>1, <2>2 DEF Aside, Kept, Adds, Live, IInv, Remembered, ReliesOn
  <2>4. Shaped'
    BY <1>1, <2>1, <2>2 DEF IInv, Shaped, LinksShaped, Link, Moves
  <2> QED  BY <2>3, <2>4, Finish
<1> QED  BY <1>2, <1>3 DEF FindSpeaker

-----------------------------------------------------------------------------
(* The steps that write rows and reload the mirror, under the lock. *)

\* The admitted sample is written: its speaker is there, or the keys refuse it.
LEMMA InsertStep ==
  ASSUME IInv, NEW r \in Requests, Insert(r)
  PROVE  IInv'
<1>1. /\ UNCHANGED <<profiles, consent, invites, fk, mirror, arrived>> /\ req[r].pc = "insert"
      /\ lock = Nobody
  BY DEF Insert
<1>2. CASE fk /\ req[r].id \notin profiles
  <2>1. /\ UNCHANGED <<rows, past, lock>> /\ Answer(r, 500)
    BY <1>1, <1>2 DEF Insert, Refused
  <2>2. Moves(r) /\ req'[r].pc = "answered"
    BY <2>1, AnswerMoves DEF IInv, Shaped
  <2>3. ReliesOn(r)'
    BY <2>2 DEF ReliesOn
  <2> QED  BY <1>1, <2>1, <2>2, <2>3, FinishReading DEF tables
<1>3. CASE ~(fk /\ req[r].id \notin profiles)
  <2>1. /\ lock' = r /\ rows' = rows \cup {Row(r)} /\ Goto(r, "ids")
        /\ past' = [past EXCEPT !.enrolled = @ \cup {<<Row(r).id, Row(r).voice>>}]
    BY <1>3 DEF Insert
  <2>2. /\ Moves(r) /\ req'[r].pc = "ids"
    BY <2>1, GotoMoves DEF IInv, Shaped
  <2>3. past'.ids = past.ids
        /\ past' = [ids |-> past'.ids, enrolled |-> past'.enrolled, uncounted |-> past'.uncounted]
    BY <2>1 DEF IInv, Shaped
  <2>4. req[r].id \in profiles /\ (req[r].op = "invite_sample" => req[r].id \in consent)
        /\ req[r].op \in Embeds
    BY <1>1, <1>3 DEF IInv, Admission, ReliesOn, Embeds, Shaped, Remembered
  <2>5. NoOrphans' /\ InviteeConsented'
    <3>1. Row(r).id = req[r].id /\ (Row(r).via # NoInvite => req[r].op # "sample")
      BY DEF Row
    <3> QED  BY <1>1, <2>1, <2>4, <3>1
                DEF IInv, StoreSound, NoOrphans, InviteeConsented, Embeds, Live
  <2>6. LockHeld' /\ HalfLoaded' /\ MirrorFresh'
    <3>1. \A q \in Requests : ~Writing(q)
      BY <1>1 DEF IInv, LockHeld, Nobody, Requests
    <3>2. \A q \in Requests \ {r} : ~Writing(q)'
      BY <2>2, <3>1 DEF Moves, Stays, Writing
    <3>3. Writing(r)' /\ req'[r].pc # "mat" /\ r # Nobody
      BY <2>2 DEF Writing, Nobody, Requests
    <3>4. \A q \in Requests : req'[q].pc # "mat"
      BY <3>2, <3>3 DEF Writing
    <3> QED  BY <2>1, <3>2, <3>3, <3>4 DEF LockHeld, HalfLoaded, MirrorFresh
  <2>7. Admission'
    <3>1. Kept
      BY <1>1, <2>3 DEF Kept
    <3>2. \A q \in Requests \ {r} : ReliesOn(q)'
      BY <2>2, <3>1, KeptStep DEF IInv, Moves
    <3>3. ReliesOn(r)'
      BY <2>2 DEF ReliesOn
    <3> QED  BY <3>2, <3>3 DEF Admission
  <2>8. Shaped' /\ Remembered' /\ Numbered'
    BY <1>1, <2>2, <2>3, NumberedStep DEF IInv, Shaped, LinksShaped, Link, Remembered, Moves
  <2> QED  BY <2>5, <2>6, <2>7, <2>8 DEF IInv, StoreSound
<1> QED  BY <1>2, <1>3

\* A step of the holder of the lock, who alone touches the mirror.
LEMMA HolderAlone ==
  ASSUME LockHeld, NEW r \in Requests, Writing(r)
  PROVE  lock = r /\ r # Nobody /\ \A q \in Requests \ {r} : ~Writing(q)
BY DEF LockHeld, Nobody, Requests

LEMMA ReloadMoves ==
  ASSUME ReqShaped, NEW r \in Requests, NEW pcs, NEW pc, NEW status,
         \/ req' = [Tears(r, pcs) EXCEPT ![r].pc = pc]
         \/ req' = [Tears(r, pcs) EXCEPT ![r].pc = pc, ![r].status = status]
  PROVE  Moves(r) /\ req'[r].pc = pc /\ req'[r].op = req[r].op /\ req'[r].id = req[r].id
<1> DEFINE torn == Tears(r, pcs)
<1>1. /\ torn = [q \in Requests |-> torn[q]]
      /\ \A q \in Requests : /\ torn[q] = [f \in Fields |-> torn[q][f]]
                            /\ torn[q].op = req[q].op /\ torn[q].pc = req[q].pc
                            /\ torn[q].id = req[q].id /\ torn[q].inv = req[q].inv
  <2> DEFINE yes == TRUE
  <2>1. torn = [q \in Requests |->
           IF req[r].op = "delete" /\ req[q].pc \in pcs THEN [req[q] EXCEPT !.torn = yes] ELSE req[q]]
    BY DEF Tears
  <2> HIDE DEF torn, yes
  <2> QED  BY <2>1 DEF ReqShaped, Fields
<1> HIDE DEF torn
<1>2. CASE req' = [torn EXCEPT ![r].pc = pc]
  <2>1. /\ req' = [q \in Requests |-> req'[q]]
        /\ \A q \in Requests \ {r} : req'[q] = torn[q]
        /\ req'[r] = [torn[r] EXCEPT !.pc = pc]
    BY <1>1, <1>2
  <2> QED  BY <1>1, <2>1 DEF ReqShaped, Fields, Moves, Stays
<1>3. CASE req' = [torn EXCEPT ![r].pc = pc, ![r].status = status]
  BY <1>1, <1>3, SMTT(30) DEF ReqShaped, Fields, Moves, Stays
<1> QED  BY <1>2, <1>3 DEF torn

LEMMA ReloadIdsStep ==
  ASSUME IInv, NEW r \in Requests, ReloadIds(r)
  PROVE  IInv'
<1>1. /\ UNCHANGED <<profiles, consent, rows, invites, fk, lock, past, arrived>>
      /\ req[r].pc = "ids" /\ mirror' = [mirror EXCEPT !.ids = IdsOf(rows)]
  BY DEF ReloadIds, tables
<1>2. Moves(r) /\ req'[r].pc = "mat"
  BY ReloadMoves DEF ReloadIds, IInv, Shaped
<1>3. mirror'.ids = IdsOf(rows) /\ mirror' = [ids |-> mirror'.ids, mat |-> mirror'.mat]
  BY <1>1 DEF IInv, Shaped
<1>4. lock = r /\ r # Nobody /\ \A q \in Requests \ {r} : ~Writing(q)
  BY <1>1, HolderAlone DEF IInv, Writing
<1>5. LockHeld'
  BY <1>1, <1>2, <1>4 DEF IInv, LockHeld, Writing, Moves, Stays
<1>6. HalfLoaded' /\ MirrorFresh'
  BY <1>1, <1>3, <1>4 DEF HalfLoaded, MirrorFresh
<1>7. NoOrphans' /\ InviteeConsented'
  BY <1>1 DEF IInv, StoreSound, NoOrphans, InviteeConsented, Live
<1>8. Admission'
  <2>1. Kept
    BY <1>1 DEF Kept
  <2>2. ReliesOn(r)'
    BY <1>2 DEF ReliesOn
  <2> QED  BY <1>2, <2>1, <2>2, KeptStep DEF IInv, Moves, Admission
<1>9. Shaped' /\ Remembered' /\ Numbered'
  BY <1>1, <1>2, <1>3, NumberedStep DEF IInv, Shaped, LinksShaped, Link, Remembered, Moves
<1> QED  BY <1>5, <1>6, <1>7, <1>8, <1>9 DEF IInv, StoreSound

LEMMA ReloadMatStep ==
  ASSUME IInv, NEW r \in Requests, ReloadMat(r)
  PROVE  IInv'
<1>1. /\ UNCHANGED <<profiles, consent, rows, invites, fk, past, arrived>>
      /\ req[r].pc = "mat" /\ mirror' = [mirror EXCEPT !.mat = MatOf(rows)] /\ lock' = Nobody
  BY DEF ReloadMat, tables
<1>2. Moves(r) /\ req'[r].pc \in {"touch", "answered"}
  <2> DEFINE status == IF req[r].status = 0 THEN 200 ELSE req[r].status
  <2>1. CASE req[r].op = "invite_sample"
    <3>1. Goto(r, "touch")
      BY <2>1 DEF ReloadMat, Goto
    <3> QED  BY <3>1, GotoMoves DEF IInv, Shaped
  <2>2. CASE req[r].op # "invite_sample"
    <3>1. Tears(r, {"zip"})[r].status = req[r].status
      BY DEF Tears, IInv, Shaped, ReqShaped, Fields
    <3>2. req' = [Tears(r, {"zip"}) EXCEPT ![r].pc = "answered", ![r].status = status]
      BY <2>2, <3>1 DEF ReloadMat, Tears
    <3> HIDE DEF status
    <3> QED  BY <3>2, ReloadMoves DEF IInv, Shaped
  <2> QED  BY <2>1, <2>2
<1>3. mirror' = [ids |-> IdsOf(rows), mat |-> MatOf(rows)]
  BY <1>1 DEF IInv, Shaped, HalfLoaded
<1>4. lock = r /\ r # Nobody /\ \A q \in Requests \ {r} : ~Writing(q)
  BY <1>1, HolderAlone DEF IInv, Writing
<1>5. LockHeld' /\ HalfLoaded'
  <2>1. \A q \in Requests : ~Writing(q)'
    BY <1>2, <1>4 DEF Writing, Moves, Stays
  <2> QED  BY <1>1, <2>1 DEF LockHeld, HalfLoaded, Writing, Nobody, Requests
<1>6. MirrorFresh'
  BY <1>1, <1>3 DEF MirrorFresh
<1>7. NoOrphans' /\ InviteeConsented'
  BY <1>1 DEF IInv, StoreSound, NoOrphans, InviteeConsented, Live
<1>8. Admission'
  <2>1. Kept
    BY <1>1 DEF Kept
  <2>2. ReliesOn(r)'
    BY <1>2 DEF ReliesOn
  <2> QED  BY <1>2, <2>1, <2>2, KeptStep DEF IInv, Moves, Admission
<1>9. Shaped' /\ Remembered' /\ Numbered'
  BY <1>1, <1>2, <1>3, NumberedStep DEF IInv, Shaped, LinksShaped, Link, Remembered, Moves
<1> QED  BY <1>5, <1>6, <1>7, <1>8, <1>9 DEF IInv, StoreSound

\* A deletion takes the speaker with all that hangs on it, and from then on the
\* keys refuse whatever was admitted before.
LEMMA DeleteSpeakerStep ==
  ASSUME IInv, NEW r \in Requests, DeleteSpeaker(r)
  PROVE  IInv'
<1>1. /\ UNCHANGED <<mirror, past, arrived>> /\ req[r].pc = "arrived"
      /\ lock = Nobody /\ lock' = r /\ fk' = TRUE
      /\ profiles' = profiles \ {req[r].id} /\ consent' = consent \ {req[r].id}
      /\ rows' = {e \in rows : e.id # req[r].id}
  BY DEF DeleteSpeaker, At, Takes, FkAfterDelete
<1>2. Moves(r) /\ req'[r].pc = "ids"
  <2> DEFINE status == IF req[r].id \in profiles THEN 200 ELSE 404
  <2>1. req' = [req EXCEPT ![r].pc = "ids", ![r].status = status]
    BY DEF DeleteSpeaker
  <2> HIDE DEF status
  <2> QED  BY <2>1 DEF IInv, Shaped, ReqShaped, Fields, Moves, Stays
<1>3. /\ LinksShaped'
      /\ \A i \in Invites : Live(i)' => Live(i) /\ invites'[i].id = invites[i].id
                                      /\ invites[i].id # req[r].id
  <2> DEFINE gone == "gone"
  <2>1. invites' = [i \in Invites |->
           IF Live(i) /\ invites[i].id = req[r].id THEN [invites[i] EXCEPT !.state = gone]
           ELSE invites[i]]
    BY DEF DeleteSpeaker
  <2>2. gone # "live"
    OBVIOUS
  <2> HIDE DEF gone
  <2> QED  BY <2>1, <2>2 DEF IInv, Shaped, LinksShaped, Link, Live
<1>4. NoOrphans' /\ InviteeConsented'
  BY <1>1, <1>3 DEF IInv, StoreSound, NoOrphans, InviteeConsented
<1>5. LockHeld' /\ HalfLoaded' /\ MirrorFresh'
  <2>1. \A q \in Requests : ~Writing(q)
    BY <1>1 DEF IInv, LockHeld, Nobody, Requests
  <2>2. \A q \in Requests \ {r} : ~Writing(q)'
    BY <1>2, <2>1 DEF Moves, Stays, Writing
  <2>3. Writing(r)' /\ req'[r].pc # "mat" /\ r # Nobody
    BY <1>2 DEF Writing, Nobody, Requests
  <2>4. \A q \in Requests : req'[q].pc # "mat"
    BY <2>2, <2>3 DEF Writing
  <2> QED  BY <1>1, <2>2, <2>3, <2>4 DEF LockHeld, HalfLoaded, MirrorFresh
<1>6. Admission'
  <2>1. Kept
    BY <1>1 DEF Kept
  <2>2. ReliesOn(r)'
    BY <1>2 DEF ReliesOn
  <2> QED  BY <1>2, <2>1, <2>2, KeptStep DEF IInv, Moves, Admission
<1>7. Shaped' /\ Remembered' /\ Numbered'
  BY <1>1, <1>2, <1>3, NumberedStep DEF IInv, Shaped, Remembered, Moves
<1> QED  BY <1>4, <1>5, <1>6, <1>7 DEF IInv, StoreSound

-----------------------------------------------------------------------------
(* The steps of nobody's request. *)

\* A request arrives that has not been admitted to anything.
LEMMA ArriveStep ==
  ASSUME IInv, NEW op, NEW id, NEW inv, NEW clip, Arrive(op, id, inv, clip)
  PROVE  IInv'
<1>1. /\ UNCHANGED <<tables, fk, lock, mirror, past>> /\ arrived' = arrived + 1
  BY DEF Arrive
<1> DEFINE r == arrived + 1
           pc == IF op \in Questions THEN "read" ELSE "arrived"
           new == [NoRequest EXCEPT !.op = op, !.id = id, !.inv = inv, !.clip = clip, !.pc = pc]
<1>2. req' = [req EXCEPT ![r] = new]
  BY DEF Arrive
<1>3. new.op = op /\ new.pc = pc /\ new.id = id /\ new = [f \in Fields |-> new[f]]
  <2>1. NoRequest = [f \in Fields |-> NoRequest[f]]
    BY DEF NoRequest, Fields
  <2> HIDE DEF pc
  <2> QED  BY <2>1 DEF Fields
<1>4. pc \in {"read", "arrived"} /\ (pc = "read" => op \in Questions)
  OBVIOUS
<1> HIDE DEF new, pc
<1>5. Shaped' /\ Remembered'
  BY <1>1, <1>2, <1>3 DEF IInv, Shaped, ReqShaped, LinksShaped, Link, Remembered, tables
<1>6. \A q \in Requests : q # r => req'[q] = req[q]
  BY <1>2 DEF IInv, Shaped, ReqShaped
<1>7. r \in Requests => req'[r] = new
  BY <1>2 DEF IInv, Shaped, ReqShaped
<1>8. r \in Requests => req[r].pc = "free"
  BY DEF IInv, Numbered
<1>9. Numbered'
  BY <1>1, <1>6 DEF IInv, Numbered, Requests
<1>10. \A q \in Requests : Writing(q)' <=> Writing(q)
  BY <1>3, <1>4, <1>6, <1>7, <1>8 DEF Writing
<1>11. LockHeld' /\ HalfLoaded' /\ MirrorFresh'
  <2>1. \A q \in Requests : req'[q].pc = "mat" => req[q].pc = "mat"
    BY <1>3, <1>4, <1>6, <1>7
  <2> QED  BY <1>1, <1>10, <2>1 DEF IInv, StoreSound, LockHeld, HalfLoaded, MirrorFresh, tables
<1>12. NoOrphans' /\ InviteeConsented'
  BY <1>1 DEF IInv, StoreSound, NoOrphans, InviteeConsented, Live, tables
<1>13. Admission'
  <2>1. Kept
    BY <1>1 DEF Kept, tables
  <2>2. \A q \in Requests : q # r => Stays(q)
    BY <1>6 DEF Stays
  <2>3. \A q \in Requests : q # r => ReliesOn(q)'
    BY <2>1, <2>2, KeptStep DEF IInv
  <2>4. ASSUME NEW q \in Requests, q = r PROVE ReliesOn(q)'
    <3>1. req'[q].pc \in {"read", "arrived"} /\ (req'[q].pc = "read" => req'[q].op \in Questions)
      BY <1>3, <1>4, <1>7, <2>4
    <3> QED  BY <3>1 DEF ReliesOn, Questions
  <2> QED  BY <2>3, <2>4 DEF Admission
<1> QED  BY <1>5, <1>9, <1>11, <1>12, <1>13 DEF IInv, StoreSound

\* A link expires and stays the link of its speaker.
LEMMA ExpireStep ==
  ASSUME IInv, NEW i \in Invites, Expire(i)
  PROVE  IInv'
<1>1. UNCHANGED <<profiles, consent, rows, fk, lock, mirror, req, arrived, past>>
  BY DEF Expire
<1>2. /\ LinksShaped'
      /\ \A j \in Invites : invites'[j].id = invites[j].id /\ invites'[j].state = invites[j].state
  <2> DEFINE yes == TRUE
  <2>1. invites' = [invites EXCEPT ![i].expired = yes]
    BY DEF Expire
  <2> HIDE DEF yes
  <2> QED  BY <2>1 DEF IInv, Shaped, LinksShaped, Link
<1>3. Shaped' /\ Remembered' /\ Numbered'
  BY <1>1, <1>2 DEF IInv, Shaped, ReqShaped, Remembered, Numbered
<1>4. LockHeld' /\ HalfLoaded' /\ MirrorFresh'
  BY <1>1 DEF IInv, StoreSound, LockHeld, Writing, HalfLoaded, MirrorFresh
<1>5. NoOrphans' /\ InviteeConsented'
  BY <1>1, <1>2 DEF IInv, StoreSound, NoOrphans, InviteeConsented, Live
<1>6. Admission'
  BY <1>1 DEF IInv, Admission, ReliesOn
<1> QED  BY <1>3, <1>4, <1>5, <1>6 DEF IInv, StoreSound

\* A restart forgets the foreign keys, and with them every request that had
\* been admitted.
LEMMA RestartStep ==
  ASSUME IInv, Restart
  PROVE  IInv'
<1>1. /\ UNCHANGED <<tables, arrived>> /\ fk' = FALSE /\ lock' = Nobody /\ mirror' = Loaded
  BY DEF Restart
<1>2. ReqShaped' /\ \A r \in Requests :
        /\ req[r].pc = "free" => req'[r].pc = "free"
        /\ req'[r].pc \in {"free", "answered", "lost"}
  <2> DEFINE lost == "lost"
  <2>1. req' = [r \in Requests |-> IF Pending(r) THEN [req[r] EXCEPT !.pc = lost] ELSE req[r]]
    BY DEF Restart
  <2>2. lost = "lost"
    OBVIOUS
  <2> HIDE DEF lost
  <2> QED  BY <2>1, <2>2 DEF IInv, Shaped, ReqShaped, Fields, Pending
<1>3. past'.ids = past.ids
      /\ past' = [ids |-> past'.ids, enrolled |-> past'.enrolled, uncounted |-> past'.uncounted]
  <2> DEFINE uncounted == [i \in Invites |->
               past.uncounted[i] + IF Live(i) THEN Cardinality(Uncounted(i)) ELSE 0]
  <2>1. past' = [past EXCEPT !.uncounted = uncounted]
    BY DEF Restart
  <2> HIDE DEF uncounted
  <2> QED  BY <2>1 DEF IInv, Shaped
<1>4. Shaped' /\ Remembered'
  BY <1>1, <1>2, <1>3 DEF IInv, Shaped, LinksShaped, Link, Remembered, Loaded, tables
<1>5. Numbered'
  BY <1>1, <1>2 DEF IInv, Numbered
<1>6. LockHeld' /\ HalfLoaded' /\ MirrorFresh'
  BY <1>1, <1>2 DEF LockHeld, Writing, HalfLoaded, MirrorFresh, Loaded, Nobody, Requests, tables
<1>7. NoOrphans' /\ InviteeConsented'
  BY <1>1 DEF IInv, StoreSound, NoOrphans, InviteeConsented, Live, tables
<1>8. Admission'
  BY <1>2 DEF Admission, ReliesOn
<1> QED  BY <1>4, <1>5, <1>6, <1>7, <1>8 DEF IInv, StoreSound

-----------------------------------------------------------------------------
(* The invariant, and what it gives. *)

LEMMA Initially ==
  ASSUME NEW stored, StoredSound(stored), InitService(stored)
  PROVE  IInv
<1>1. ReqShaped /\ \A r \in Requests : req[r].pc = "free"
  <2>1. NoRequest = [f \in Fields |-> NoRequest[f]] /\ NoRequest.pc = "free"
    BY DEF NoRequest, Fields
  <2> QED  BY <2>1 DEF InitService, ReqShaped
<1>2. Shaped
  BY <1>1 DEF InitService, StoredSound, Shaped, LinksShaped, Link, Invite
<1>3. Numbered /\ LockHeld /\ HalfLoaded /\ Admission
  BY <1>1 DEF InitService, Numbered, LockHeld, Writing, HalfLoaded, Admission, ReliesOn,
              Nobody, Requests
<1>4. Remembered
  BY DEF InitService, StoredSound, Remembered
<1>5. NoOrphans /\ MirrorFresh /\ InviteeConsented
  BY DEF InitService, StoredSound, NoOrphans, MirrorFresh, InviteeConsented, Live
<1> QED  BY <1>2, <1>3, <1>4, <1>5 DEF IInv, StoreSound

LEMMA Idle ==
  ASSUME IInv, UNCHANGED service
  PROVE  IInv'
BY DEF IInv, service, tables, Shaped, ReqShaped, LinksShaped, Link, Numbered, LockHeld, Writing,
       HalfLoaded, Remembered, Admission, ReliesOn, StoreSound, NoOrphans, MirrorFresh,
       InviteeConsented, Live

LEMMA ServeStep ==
  ASSUME IInv, NEW r \in Requests, Serve(r)
  PROVE  IInv'
BY ValidateStep, EmbedStep, InsertStep, ReloadIdsStep, ReloadMatStep, LinkStep,
   CreateSpeakerStep, DeleteSpeakerStep, FindSpeakerStep, AddInviteStep, SetConsentStep, QueryStep
   DEF Serve

LEMMA Step ==
  ASSUME IInv, [Next]_vars
  PROVE  IInv'
<1>1. CASE ServiceNext
  <2>1. ASSUME NEW op \in load.ops, Ask(op) PROVE IInv'
    BY <2>1, ArriveStep DEF Ask
  <2> QED  BY <1>1, <2>1, ServeStep, ExpireStep, RestartStep DEF ServiceNext
<1>2. CASE SessionNext
  <2>1. CASE IdentifyCalls
    BY <2>1, ArriveStep DEF IdentifyCalls
  <2>2. ASSUME NEW j \in Working, DiarizeCalls(j) PROVE IInv'
    BY <2>2, ArriveStep DEF DiarizeCalls
  <2>3. CASE \/ \E u \in Turns : Speak(u)
             \/ SttTake \/ SttPosted \/ SttJoin \/ IdentifyReturns
             \/ OnSpeechStarted \/ OnTranscriptionCompleted \/ OnTranscriptionCorrected
             \/ OpenResponse \/ FinishResponse \/ \E j \in Working : DiarizeReturns(j)
    <3>1. UNCHANGED service
      BY <2>3 DEF Speak, SttTake, SttPosted, SttJoin, IdentifyReturns, OnSpeechStarted,
                  OnTranscriptionCompleted, OnTranscriptionCorrected, OpenResponse,
                  FinishResponse, DiarizeReturns
    <3> QED  BY <3>1, Idle
  <2> QED  BY <1>2, <2>1, <2>2, <2>3 DEF SessionNext
<1>3. CASE UNCHANGED vars
  BY <1>3, Idle DEF vars
<1> QED  BY <1>1, <1>2, <1>3 DEF Next

\* On any database an earlier process has left, and through any deletions,
\* uploads and restarts: no sample and no link outlives its speaker, the mirror
\* is the table whenever the lock is free, and no link has recorded what was
\* not consented to.
THEOREM Store ==
  ASSUME NEW stored, StoredSound(stored)
  PROVE  Init(stored) /\ [][Next]_vars => []StoreSound
<1>1. Init(stored) => IInv
  BY Initially DEF Init
<1>2. IInv /\ [Next]_vars => IInv'
  BY Step
<1>3. IInv => StoreSound
  BY DEF IInv
<1> QED  BY <1>1, <1>2, <1>3, PTL

-----------------------------------------------------------------------------
(* The table in the order of insertion. *)

\* Row numbers are a primary key.
Keyed(R) ==
  /\ IsFiniteSet(R)
  /\ \A e \in R : e.row \in Nat
  /\ \A e, f \in R : e.row = f.row => e = f

Before(R, e) == {f \in R : f.row < e.row}

LEMMA BeforeFinite ==
  ASSUME NEW R, Keyed(R), NEW e
  PROVE  /\ IsFiniteSet(Before(R, e)) /\ Cardinality(R) \in Nat
         /\ Cardinality(Before(R, e)) \in 0..Cardinality(R)
<1>1. Before(R, e) \in SUBSET R /\ IsFiniteSet(R)
  BY DEF Before, Keyed
<1>2. IsFiniteSet(Before(R, e)) /\ Cardinality(Before(R, e)) <= Cardinality(R)
  BY <1>1, FS_Subset
<1>3. Cardinality(Before(R, e)) \in Nat /\ Cardinality(R) \in Nat
  BY <1>1, <1>2, FS_CardinalityType
<1> QED  BY <1>2, <1>3

LEMMA BeforeGrows ==
  ASSUME NEW R, Keyed(R), NEW a \in R, NEW b \in R, a.row < b.row
  PROVE  Cardinality(Before(R, a)) < Cardinality(Before(R, b))
<1>1. a \notin Before(R, a) /\ Before(R, a) \cup {a} \in SUBSET Before(R, b)
  BY DEF Before, Keyed
<1>2. Cardinality(Before(R, a) \cup {a}) = Cardinality(Before(R, a)) + 1
  BY <1>1, BeforeFinite, FS_AddElement
<1>3. Cardinality(Before(R, a) \cup {a}) <= Cardinality(Before(R, b))
  BY <1>1, BeforeFinite, FS_Subset
<1> QED  BY <1>2, <1>3, BeforeFinite

LEMMA BeforeIsRank ==
  ASSUME NEW R, Keyed(R), NEW a \in R, NEW b \in R,
         Cardinality(Before(R, a)) = Cardinality(Before(R, b))
  PROVE  a = b
<1>1. ~(a.row < b.row) /\ ~(b.row < a.row)
  BY BeforeGrows, BeforeFinite
<1> QED  BY <1>1 DEF Keyed

\* A row is below another, so fewer than all are before it.
LEMMA BeforeBelow ==
  ASSUME NEW R, Keyed(R), NEW e \in R
  PROVE  Cardinality(Before(R, e)) + 1 \in 1..Cardinality(R)
<1>1. e \notin Before(R, e) /\ Before(R, e) \cup {e} \in SUBSET R
  BY DEF Before, Keyed
<1>2. Cardinality(Before(R, e) \cup {e}) = Cardinality(Before(R, e)) + 1
  BY <1>1, BeforeFinite, FS_AddElement
<1>3. Cardinality(Before(R, e) \cup {e}) <= Cardinality(R)
  BY <1>1, FS_Subset DEF Keyed
<1> QED  BY <1>2, <1>3, BeforeFinite

\* The k-th row has k - 1 before it.
LEMMA InOrderProperties ==
  ASSUME NEW R, Keyed(R), NEW k \in 1..Cardinality(R)
  PROVE  InOrder(R)[k] \in R /\ Cardinality(Before(R, InOrder(R)[k])) = k - 1
<1> DEFINE N == 1..Cardinality(R)
           rank == [e \in R |-> Cardinality(Before(R, e)) + 1]
<1>1. rank \in Injection(R, N)
  <2>1. rank \in [R -> N]
    BY BeforeBelow
  <2>2. ASSUME NEW a \in R, NEW b \in R, rank[a] = rank[b] PROVE a = b
    <3>1. Cardinality(Before(R, a)) \in Nat /\ Cardinality(Before(R, b)) \in Nat
      BY BeforeFinite
    <3>2. Cardinality(Before(R, a)) = Cardinality(Before(R, b))
      BY <2>2, <3>1
    <3> QED  BY <3>2, BeforeIsRank
  <2> QED  BY <2>1, <2>2 DEF Injection, IsInjective
<1>2. IsFiniteSet(R) /\ Cardinality(R) \in Nat
  BY FS_CardinalityType DEF Keyed
<1>3. IsFiniteSet(N) /\ Cardinality(N) = Cardinality(R)
  BY <1>2, FS_Interval
<1>4. rank \in Surjection(R, N)
  BY <1>1, <1>3, FS_Injection
<1>5. PICK e \in R : rank[e] = k
  BY <1>4 DEF Surjection
<1>6. Cardinality(Before(R, e)) = k - 1
  <2>1. Cardinality(Before(R, e)) \in Nat /\ Cardinality(Before(R, e)) + 1 = k
    BY <1>5, BeforeFinite
  <2> QED  BY <2>1
<1>7. \E x \in R : Cardinality({f \in R : f.row < x.row}) = k - 1
  BY <1>6 DEF Before
<1>8. InOrder(R)[k] = CHOOSE x \in R : Cardinality({f \in R : f.row < x.row}) = k - 1
  BY DEF InOrder
<1> QED  BY <1>7, <1>8 DEF Before

\* NextRow is above every row there is.
LEMMA NextRowIsNew ==
  ASSUME Keyed(rows)
  PROVE  NextRow \in Nat /\ \A e \in rows : e.row < NextRow
<1>1. CASE rows = {}
  BY <1>1 DEF NextRow
<1>2. CASE rows # {}
  <2> DEFINE c == Cardinality(rows)
             top == InOrder(rows)[c]
  <2>1. c \in Nat /\ c # 0
    BY <1>2, FS_CardinalityType, FS_EmptySet DEF Keyed
  <2>2. top \in rows /\ Cardinality(Before(rows, top)) = c - 1
    BY <2>1, InOrderProperties
  <2> HIDE DEF top
  <2>3. ASSUME NEW e \in rows PROVE e.row <= top.row
    <3>1. ~(top.row < e.row)
      <4> SUFFICES ASSUME top.row < e.row PROVE FALSE
        OBVIOUS
      <4>1. Cardinality(Before(rows, top)) < Cardinality(Before(rows, e))
        BY <2>2, BeforeGrows
      <4>2. Cardinality(Before(rows, e)) + 1 \in 1..c /\ Cardinality(Before(rows, e)) \in 0..c
        BY BeforeBelow, BeforeFinite
      <4> HIDE DEF c
      <4> QED  BY <2>1, <2>2, <4>1, <4>2
    <3> QED  BY <2>2, <3>1 DEF Keyed
  <2> DEFINE max == CHOOSE n \in {e.row : e \in rows} : \A e \in rows : e.row <= n
  <2>4. max \in {e.row : e \in rows} /\ \A e \in rows : e.row <= max
    <3>1. \E n \in {e.row : e \in rows} : \A e \in rows : e.row <= n
      BY <2>2, <2>3
    <3> QED  BY <3>1, Zenon
  <2>5. NextRow = 1 + max
    BY <1>2 DEF NextRow
  <2> HIDE DEF max
  <2> QED  BY <2>4, <2>5 DEF Keyed
<1> QED  BY <1>1, <1>2

\* A row that comes after all others is read last.
LEMMA ReadLast ==
  ASSUME NEW R, Keyed(R), NEW e, e \notin R, e.row \in Nat, \A f \in R : f.row < e.row
  PROVE  /\ Keyed(R \cup {e}) /\ Cardinality(R \cup {e}) = Cardinality(R) + 1
         /\ InOrder(R \cup {e})[Cardinality(R) + 1] = e
         /\ \A k \in 1..Cardinality(R) : InOrder(R \cup {e})[k] = InOrder(R)[k]
<1> DEFINE T == R \cup {e}
           c == Cardinality(R)
<1>1. Keyed(T) /\ Cardinality(T) = c + 1 /\ c \in Nat
  <2>1. IsFiniteSet(T) /\ Cardinality(T) = c + 1 /\ c \in Nat
    BY FS_AddElement, FS_CardinalityType DEF Keyed
  <2> QED  BY <2>1 DEF Keyed
<1>2. Before(T, e) = R
  BY DEF Before, Keyed
<1>3. \A f \in R : Before(T, f) = Before(R, f)
  BY DEF Before, Keyed
<1> HIDE DEF T, c
<1>4. \A k \in 1..c + 1 : InOrder(T)[k] \in T /\ Cardinality(Before(T, InOrder(T)[k])) = k - 1
  BY <1>1, InOrderProperties
<1>5. InOrder(T)[c + 1] = e
  <2>1. e \in T
    BY DEF T
  <2>2. InOrder(T)[c + 1] \in T /\ Cardinality(Before(T, InOrder(T)[c + 1])) = c
    BY <1>1, <1>4
  <2> QED  BY <1>1, <1>2, <2>1, <2>2, BeforeIsRank DEF c
<1>6. ASSUME NEW k \in 1..c PROVE InOrder(T)[k] = InOrder(R)[k]
  <2> DEFINE x == InOrder(T)[k]
             y == InOrder(R)[k]
  <2>1. x \in T /\ Cardinality(Before(T, x)) = k - 1
    BY <1>1, <1>4
  <2>2. y \in R /\ Cardinality(Before(R, y)) = k - 1
    BY InOrderProperties DEF c
  <2> HIDE DEF x, y
  <2>3. x # e
    BY <1>1, <1>2, <2>1 DEF c
  <2>4. x \in R
    BY <2>1, <2>3 DEF T
  <2> QED  BY <1>3, <2>1, <2>2, <2>4, BeforeIsRank DEF x, y
<1> QED  BY <1>1, <1>5, <1>6 DEF T, c

-----------------------------------------------------------------------------
(* Requests and their fields. *)

Verdicts == [decision : {"known", "unknown", "ambiguous"}, id : Ids \cup {NoSpeaker}]
Statuses == {0, 200, 400, 403, 404, 410, 500}

IsRecord(q) == q = [f \in Fields |-> q[f]]

\* Of a request only these fields are written after it has arrived.
Edits(n, q, pc, id, mat, verdicts, torn, status) ==
  /\ IsRecord(n)
  /\ n.op = q.op /\ n.inv = q.inv /\ n.clip = q.clip
  /\ n.pc = pc /\ n.id = id /\ n.mat = mat /\ n.verdicts = verdicts
  /\ n.torn = torn /\ n.status = status

LEMMA Edited ==
  ASSUME NEW q, IsRecord(q), NEW pc, NEW id, NEW mat, NEW verdicts, NEW torn, NEW status
  PROVE  /\ Edits([q EXCEPT !.pc = pc], q, pc, q.id, q.mat, q.verdicts, q.torn, q.status)
         /\ Edits([q EXCEPT !.pc = pc, !.status = status],
                  q, pc, q.id, q.mat, q.verdicts, q.torn, status)
         /\ Edits([q EXCEPT !.pc = pc, !.id = id],
                  q, pc, id, q.mat, q.verdicts, q.torn, q.status)
         /\ Edits([q EXCEPT !.pc = pc, !.status = status, !.verdicts = verdicts],
                  q, pc, q.id, q.mat, verdicts, q.torn, status)
         /\ Edits([q EXCEPT !.torn = torn], q, q.pc, q.id, q.mat, q.verdicts, torn, q.status)
         /\ Edits([q EXCEPT !.pc = pc, !.mat = mat, !.torn = torn],
                  q, pc, q.id, mat, q.verdicts, torn, q.status)
         /\ Edits([q EXCEPT !.verdicts = verdicts, !.mat = mat, !.pc = pc, !.status = status],
                  q, pc, q.id, mat, verdicts, q.torn, status)
<1>1. Edits([q EXCEPT !.pc = pc], q, pc, q.id, q.mat, q.verdicts, q.torn, q.status)
  BY DEF IsRecord, Fields, Edits
<1>2. Edits([q EXCEPT !.pc = pc, !.status = status],
            q, pc, q.id, q.mat, q.verdicts, q.torn, status)
  BY DEF IsRecord, Fields, Edits
<1>3. Edits([q EXCEPT !.pc = pc, !.id = id],
            q, pc, id, q.mat, q.verdicts, q.torn, q.status)
  BY DEF IsRecord, Fields, Edits
<1>4. Edits([q EXCEPT !.pc = pc, !.status = status, !.verdicts = verdicts],
            q, pc, q.id, q.mat, verdicts, q.torn, status)
  BY DEF IsRecord, Fields, Edits
<1>5. Edits([q EXCEPT !.torn = torn], q, q.pc, q.id, q.mat, q.verdicts, torn, q.status)
  BY DEF IsRecord, Fields, Edits
<1>6. Edits([q EXCEPT !.pc = pc, !.mat = mat, !.torn = torn],
            q, pc, q.id, mat, q.verdicts, torn, q.status)
  BY DEF IsRecord, Fields, Edits
<1>7. Edits([q EXCEPT !.verdicts = verdicts, !.mat = mat, !.pc = pc, !.status = status],
            q, pc, q.id, mat, verdicts, q.torn, status)
  BY DEF IsRecord, Fields, Edits
<1> QED  BY <1>1, <1>2, <1>3, <1>4, <1>5, <1>6, <1>7

FieldsTyped(q) ==
  /\ q.op \in AsyncOps \cup {"create", "delete", "invite", "revoke", "consent", "none"}
  /\ q.pc \in Pcs /\ q.id \in Ids \cup {NoSpeaker} /\ q.inv \in Invites \cup {NoInvite}
  /\ q.clip \in Clips \cup {<< >>} /\ q.mat \in Seq(Voices) /\ q.verdicts \in Seq(Verdicts)
  /\ q.torn \in BOOLEAN /\ q.status \in Statuses

LEMMA RequestIsFields ==
  ASSUME NEW q
  PROVE  q \in Request <=> IsRecord(q) /\ FieldsTyped(q)
<1>1. ASSUME q \in Request PROVE IsRecord(q) /\ FieldsTyped(q)
  <2>1. IsRecord(q)
    BY <1>1 DEF Request, IsRecord, Fields
  <2>2. FieldsTyped(q)
    BY <1>1 DEF Request, FieldsTyped, Verdicts, Statuses
  <2> QED  BY <2>1, <2>2
<1>2. ASSUME IsRecord(q), FieldsTyped(q) PROVE q \in Request
  BY <1>2 DEF Request, IsRecord, Fields, FieldsTyped, Verdicts, Statuses
<1> QED  BY <1>1, <1>2

-----------------------------------------------------------------------------
(* Steps keep the types. *)

\* A step writes the request of r and no other.
Wrote(r, pc, id, mat, verdicts, torn, status) ==
  /\ ReqShaped'
  /\ Edits(req'[r], req[r], pc, id, mat, verdicts, torn, status)
  /\ \A q \in Requests \ {r} : req'[q] = req[q]

LEMMA Writes ==
  ASSUME ReqShaped, NEW r \in Requests,
         NEW pc, NEW id, NEW mat, NEW verdicts, NEW torn, NEW status
  PROVE  LET q == req[r] IN
         /\ req' = [req EXCEPT ![r].pc = pc]
              => Wrote(r, pc, q.id, q.mat, q.verdicts, q.torn, q.status)
         /\ req' = [req EXCEPT ![r].pc = pc, ![r].status = status]
              => Wrote(r, pc, q.id, q.mat, q.verdicts, q.torn, status)
         /\ req' = [req EXCEPT ![r].pc = pc, ![r].id = id]
              => Wrote(r, pc, id, q.mat, q.verdicts, q.torn, q.status)
         /\ req' = [req EXCEPT ![r].pc = pc, ![r].status = status, ![r].verdicts = verdicts]
              => Wrote(r, pc, q.id, q.mat, verdicts, q.torn, status)
         /\ req' = [req EXCEPT ![r].pc = pc, ![r].mat = mat, ![r].torn = torn]
              => Wrote(r, pc, q.id, mat, q.verdicts, torn, q.status)
         /\ req' = [req EXCEPT ![r].verdicts = verdicts, ![r].mat = mat, ![r].pc = pc,
                               ![r].status = status]
              => Wrote(r, pc, q.id, mat, verdicts, q.torn, status)
<1> DEFINE q == req[r]
<1>1. req' = [req EXCEPT ![r].pc = pc]
        => Wrote(r, pc, q.id, q.mat, q.verdicts, q.torn, q.status)
  BY DEF ReqShaped, Fields, Wrote, Edits, IsRecord
<1>2. ASSUME req' = [req EXCEPT ![r].pc = pc, ![r].status = status]
      PROVE  Wrote(r, pc, q.id, q.mat, q.verdicts, q.torn, status)
  <2>1. ReqShaped'
    BY <1>2 DEF ReqShaped, Fields
  <2>2. \A x \in Requests \ {r} : req'[x] = req[x]
    BY <1>2 DEF ReqShaped
  <2>3. Edits(req'[r], q, pc, q.id, q.mat, q.verdicts, q.torn, status)
    BY <1>2 DEF ReqShaped, Fields, Edits, IsRecord
  <2> QED  BY <2>1, <2>2, <2>3 DEF Wrote
<1>3. ASSUME req' = [req EXCEPT ![r].pc = pc, ![r].id = id]
      PROVE  Wrote(r, pc, id, q.mat, q.verdicts, q.torn, q.status)
  <2>1. ReqShaped'
    BY <1>3 DEF ReqShaped, Fields
  <2>2. \A x \in Requests \ {r} : req'[x] = req[x]
    BY <1>3 DEF ReqShaped
  <2>3. Edits(req'[r], q, pc, id, q.mat, q.verdicts, q.torn, q.status)
    BY <1>3 DEF ReqShaped, Fields, Edits, IsRecord
  <2> QED  BY <2>1, <2>2, <2>3 DEF Wrote
<1>4. req' = [req EXCEPT ![r].pc = pc, ![r].status = status, ![r].verdicts = verdicts]
        => Wrote(r, pc, q.id, q.mat, verdicts, q.torn, status)
  BY DEF ReqShaped, Fields, Wrote, Edits, IsRecord
<1>5. req' = [req EXCEPT ![r].pc = pc, ![r].mat = mat, ![r].torn = torn]
        => Wrote(r, pc, q.id, mat, q.verdicts, torn, q.status)
  BY DEF ReqShaped, Fields, Wrote, Edits, IsRecord
<1>6. req' = [req EXCEPT ![r].verdicts = verdicts, ![r].mat = mat, ![r].pc = pc,
                         ![r].status = status]
        => Wrote(r, pc, q.id, mat, verdicts, q.torn, status)
  BY DEF ReqShaped, Fields, Wrote, Edits, IsRecord
<1> QED  BY <1>1, <1>2, <1>3, <1>4, <1>5, <1>6

\* What the endpoints rely on in the fields of a request.
Proper(q) ==
  /\ IsRecord(q) /\ FieldsTyped(q)
  /\ q.op \in {"sample", "create", "delete", "invite"} => q.id \in Ids
  /\ q.op \in Embeds \cup Questions \cup {"test"} => q.clip \in Clips
  /\ q.op \in InviteOps \cup {"revoke"} => q.inv \in Invites
  /\ q.op = "invite_sample" /\ q.pc \in {"read", "insert"} => q.id \in Ids
  /\ q.pc = "read" => q.op \in AsyncOps
  /\ q.pc = "insert" => q.op \in Embeds
  /\ q.pc \in {"ids", "mat"} => q.op \in Embeds \cup {"delete"}
  /\ q.pc = "touch" => q.op = "invite_sample"
  /\ q.pc = "write" => q.op \in {"consent", "invite"}
  /\ q.pc \in {"match", "zip"} => q.op \in Questions \cup {"test"}
  /\ q.op = "identify" => Len(q.verdicts) <= 1
  /\ q.op = "identify" /\ q.pc \notin {"answered", "lost"} => q.verdicts = << >>

TablesOK ==
  /\ profiles \subseteq Ids
  /\ rows \subseteq Embedding /\ Keyed(rows)
  /\ invites \in [Invites -> Invite]
  /\ mirror \in [ids : Seq(Ids), mat : Seq(Voices)]

CountersOK == arrived \in 0..MaxRequests /\ restarts \in Nat /\ load \in Loads

SInv == IInv /\ TablesOK /\ CountersOK /\ \A r \in Requests : Proper(req[r])

LEMMA ServiceTyped ==
  ASSUME SInv
  PROVE  ServiceTypeOK
<1>1. req \in [Requests -> Request]
  <2>1. \A r \in Requests : req[r] \in Request
    BY RequestIsFields DEF SInv, Proper
  <2> QED  BY <2>1 DEF SInv, IInv, Shaped, ReqShaped
<1> QED  BY <1>1 DEF SInv, IInv, TablesOK, CountersOK, ServiceTypeOK, Shaped, Remembered, LockHeld

\* What is left to show of a step of r.
LEMMA ServedOK ==
  ASSUME SInv, IInv', TablesOK', UNCHANGED <<load, arrived, restarts>>,
         NEW r \in Requests, NEW pc, NEW id, NEW mat, NEW verdicts, NEW torn, NEW status,
         Wrote(r, pc, id, mat, verdicts, torn, status), Proper(req'[r])
  PROVE  SInv'
BY DEF SInv, Wrote, CountersOK

LEMMA TablesStay ==
  ASSUME SInv, UNCHANGED <<profiles, rows, invites, mirror>>
  PROVE  TablesOK'
BY DEF SInv, TablesOK, Keyed

LEMMA AnswerOK ==
  ASSUME SInv, IInv', TablesOK', UNCHANGED <<load, arrived, restarts>>,
         NEW r \in Requests, NEW status \in Statuses, Answer(r, status)
  PROVE  SInv'
<1> DEFINE q == req[r]
<1>1. Wrote(r, "answered", q.id, q.mat, q.verdicts, q.torn, status)
  BY Writes DEF Answer, SInv, IInv, Shaped
<1>2. Proper(q)
  BY DEF SInv
<1>3. Proper(req'[r])
  BY <1>1, <1>2 DEF Wrote, Edits, Proper, FieldsTyped, Pcs, LoopPcs
<1> QED  BY <1>1, <1>3, ServedOK

LEMMA LoadsKnown ==
  ASSUME SInv
  PROVE  load.requests \in 0..MaxRequests /\ load.restarts \in Nat /\ MaxRequests \in Nat
BY ServiceAssumption DEF SInv, CountersOK

\* Endpoints that write nothing but their request.
LEMMA ValidateTyped ==
  ASSUME SInv, IInv', NEW r \in Requests, Validate(r)
  PROVE  SInv'
<1> DEFINE q == req[r]
<1>1. UNCHANGED <<profiles, rows, invites, mirror, load, arrived, restarts>>
  BY DEF Validate, tables
<1>2. TablesOK'
  BY <1>1, TablesStay
<1>3. CASE Admitted(r) # 0
  <2>1. Admitted(r) \in Statuses
    BY DEF Admitted, Statuses
  <2> QED  BY <1>1, <1>2, <1>3, <2>1, AnswerOK DEF Validate
<1>4. CASE Admitted(r) = 0
  <2> DEFINE pc == IF q.op = "consent" THEN "write" ELSE "read"
             id == IF q.op \in InviteOps THEN invites[q.inv].id ELSE q.id
  <2>1. req' = [req EXCEPT ![r].pc = pc, ![r].id = id]
    BY <1>4 DEF Validate
  <2>2. q.op \in AsyncOps \cup {"consent"} /\ Proper(q) /\ q.pc = "arrived"
    BY DEF Validate, SInv
  <2>3. /\ pc \in {"read", "write"} /\ (pc = "write" <=> q.op = "consent")
        /\ q.op \notin InviteOps => id = q.id
        /\ q.op \in InviteOps => id = invites[q.inv].id
    OBVIOUS
  <2> HIDE DEF pc, id
  <2>4. Wrote(r, pc, id, q.mat, q.verdicts, q.torn, q.status)
    BY <2>1, Writes DEF SInv, IInv, Shaped
  <2>5. q.op \in InviteOps => id \in Ids /\ q.inv \in Invites
    <3> SUFFICES ASSUME q.op \in InviteOps PROVE id \in Ids /\ q.inv \in Invites
      OBVIOUS
    <3>1. q.inv \in Invites
      BY <2>2 DEF Proper
    <3>2. Live(q.inv)
      BY <1>4 DEF Admitted, InviteOps
    <3>3. invites[q.inv].id \in profiles
      BY <3>1, <3>2 DEF SInv, IInv, StoreSound, NoOrphans
    <3> QED  BY <2>3, <3>1, <3>3 DEF SInv, TablesOK
  <2>6. id \in Ids \cup {NoSpeaker}
    BY <2>2, <2>3, <2>5 DEF Proper, FieldsTyped
  <2>7. FieldsTyped(req'[r])
    BY <2>2, <2>3, <2>4, <2>6 DEF Wrote, Edits, Proper, FieldsTyped, Pcs, LoopPcs
  <2>8. Proper(req'[r])
    BY <2>2, <2>3, <2>4, <2>5, <2>7
       DEF Wrote, Edits, Proper, InviteOps, AsyncOps, Embeds, Questions
  <2> QED  BY <1>1, <1>2, <2>4, <2>8, ServedOK
<1> QED  BY <1>3, <1>4

LEMMA EmbedTyped ==
  ASSUME SInv, IInv', NEW r \in Requests, Embed(r)
  PROVE  SInv'
<1> DEFINE q == req[r]
<1>1. UNCHANGED <<profiles, rows, invites, mirror, load, arrived, restarts>>
  BY DEF Embed, tables
<1>2. TablesOK'
  BY <1>1, TablesStay
<1>3. q.pc = "read" /\ Proper(q)
  BY DEF Embed, SInv
<1>4. CASE Goto(r, IF req[r].op \in Embeds THEN "insert" ELSE "match")
  <2> DEFINE pc == IF q.op \in Embeds THEN "insert" ELSE "match"
  <2>1. pc \in {"insert", "match"} /\ (pc = "insert" <=> q.op \in Embeds)
    OBVIOUS
  <2>2. req' = [req EXCEPT ![r].pc = pc]
    BY <1>4 DEF Goto
  <2> HIDE DEF pc
  <2>3. Wrote(r, pc, q.id, q.mat, q.verdicts, q.torn, q.status)
    BY <2>2, Writes DEF SInv, IInv, Shaped
  <2>4. FieldsTyped(req'[r])
    BY <1>3, <2>1, <2>3 DEF Wrote, Edits, Proper, FieldsTyped, Pcs, LoopPcs
  <2>5. Proper(req'[r])
    BY <1>3, <2>1, <2>3, <2>4 DEF Wrote, Edits, Proper, AsyncOps, Embeds, Questions
  <2> QED  BY <1>1, <1>2, <2>3, <2>5, ServedOK
<1>5. CASE req' = [req EXCEPT ![r].pc = "answered",
                  ![r].status = IF req[r].op \in Questions THEN 200 ELSE 400,
                  ![r].verdicts = IF req[r].op = "identify" THEN <<Unknown>> ELSE << >>]
  <2> DEFINE status == IF q.op \in Questions THEN 200 ELSE 400
             verdicts == IF q.op = "identify" THEN <<Unknown>> ELSE << >>
  <2>1. req' = [req EXCEPT ![r].pc = "answered", ![r].status = status, ![r].verdicts = verdicts]
    BY <1>5
  <2>2. status \in Statuses
    BY DEF Statuses
  <2>3. verdicts \in Seq(Verdicts) /\ Len(verdicts) <= 1
    <3>1. Unknown \in Verdicts
      BY DEF Verdicts, Unknown
    <3>2. <<Unknown>> \in Seq(Verdicts) /\ << >> \in Seq(Verdicts)
      BY <3>1
    <3> QED  BY <3>2
  <2> HIDE DEF status, verdicts
  <2>4. Wrote(r, "answered", q.id, q.mat, verdicts, q.torn, status)
    BY <2>1, Writes DEF SInv, IInv, Shaped
  <2>5. Proper(req'[r])
    BY <1>3, <2>2, <2>3, <2>4 DEF Wrote, Edits, Proper, FieldsTyped, Pcs, LoopPcs
  <2> QED  BY <1>1, <1>2, <2>4, <2>5, ServedOK
<1> QED  BY <1>4, <1>5 DEF Embed

LEMMA VerdictTyped ==
  ASSUME NEW r \in Requests, NEW near \in SUBSET Ids
  PROVE  Verdict(r, near) \in Verdicts /\ Unknown \in Verdicts
<1>1. Decide(near) \in Verdicts
  BY DEF Decide, Unknown, Ambiguous, Known, Verdicts
<1> QED  BY <1>1 DEF Verdict, Unknown, Known, Verdicts

LEMMA QueryMatTyped ==
  ASSUME SInv, IInv', NEW r \in Requests, QueryMat(r)
  PROVE  SInv'
<1> DEFINE q == req[r]
           mat  == IF mirror.ids = << >> THEN << >> ELSE mirror.mat
           torn == q.torn \/ \E d \in Requests : req[d].op = "delete" /\ req[d].pc = "mat"
<1>1. UNCHANGED <<profiles, rows, invites, mirror, load, arrived, restarts>>
  BY DEF QueryMat, tables
<1>2. TablesOK'
  BY <1>1, TablesStay
<1>3. q.pc = "match" /\ Proper(q) /\ req' = [req EXCEPT ![r].pc = "zip", ![r].mat = mat, ![r].torn = torn]
  BY DEF QueryMat, SInv
<1>4. mat \in Seq(Voices) /\ torn \in BOOLEAN
  BY DEF SInv, TablesOK
<1> HIDE DEF mat, torn
<1>5. Wrote(r, "zip", q.id, mat, q.verdicts, torn, q.status)
  BY <1>3, Writes DEF SInv, IInv, Shaped
<1>6. Proper(req'[r])
  <2>1. FieldsTyped(req'[r])
    BY Zenon, <1>3, <1>4, <1>5 DEF Wrote, Edits, Proper, FieldsTyped, Pcs, LoopPcs
  <2> QED  BY <1>3, <1>5, <2>1 DEF Wrote, Edits, Proper
<1> QED  BY <1>1, <1>2, <1>5, <1>6, ServedOK

LEMMA QueryZipTyped ==
  ASSUME SInv, IInv', NEW r \in Requests, QueryZip(r)
  PROVE  SInv'
<1> DEFINE q == req[r]
           k == Len(q.verdicts) + 1
           near == Near(mirror.ids, q.mat, Heard(r, k))
           last == q.op # "diarize" \/ k = Len(q.clip)
<1>1. UNCHANGED <<profiles, rows, invites, mirror, load, arrived, restarts>>
  BY DEF QueryZip, tables
<1>2. TablesOK'
  BY <1>1, TablesStay
<1>3. q.pc = "zip" /\ Proper(q)
  BY DEF QueryZip, SInv
<1>4. near \in SUBSET Ids
  BY DEF SInv, TablesOK, Near
<1>5. PICK v \in {Verdict(r, near)} \cup (IF q.op = "diarize" THEN {Unknown} ELSE {}) :
        req' = [req EXCEPT ![r].verdicts = Append(@, v), ![r].mat = << >>,
                           ![r].pc = IF last THEN "answered" ELSE "match",
                           ![r].status = IF last THEN 200 ELSE 0]
  BY DEF QueryZip
<1>6. v \in Verdicts
  BY <1>4, VerdictTyped
<1> DEFINE verdicts == Append(q.verdicts, v)
           pc == IF last THEN "answered" ELSE "match"
           status == IF last THEN 200 ELSE 0
<1>7. /\ verdicts \in Seq(Verdicts) /\ Len(verdicts) = Len(q.verdicts) + 1
      /\ Len(q.verdicts) \in Nat
  BY <1>3, <1>6 DEF Proper, FieldsTyped
<1>8. pc \in {"answered", "match"} /\ (q.op = "identify" => pc = "answered") /\ status \in Statuses
  BY DEF Statuses
<1>9. req' = [req EXCEPT ![r].verdicts = verdicts, ![r].mat = << >>, ![r].pc = pc,
                         ![r].status = status]
  BY <1>5
<1> HIDE DEF verdicts, pc, status
<1>10. Wrote(r, pc, q.id, << >>, verdicts, q.torn, status)
  BY <1>9, Writes DEF SInv, IInv, Shaped
<1>11. Proper(req'[r])
  <2>1. q.op = "identify" => Len(verdicts) <= 1
    <3>1. q.op = "identify" => q.verdicts = << >>
      BY <1>3 DEF Proper
    <3> QED  BY <1>7, <3>1
  <2>2. FieldsTyped(req'[r])
    BY <1>3, <1>7, <1>8, <1>10 DEF Wrote, Edits, Proper, FieldsTyped, Pcs, LoopPcs
  <2> QED  BY <1>3, <1>8, <1>10, <2>1, <2>2 DEF Wrote, Edits, Proper
<1> QED  BY <1>1, <1>2, <1>10, <1>11, ServedOK

\* Both fields of the mirror, as a reload fills them.
LEMMA ReloadRead ==
  ASSUME NEW R, Keyed(R), R \subseteq Embedding
  PROVE  /\ IdsOf(R) \in Seq(Ids) /\ MatOf(R) \in Seq(Voices)
         /\ Len(IdsOf(R)) = Cardinality(R) /\ Len(MatOf(R)) = Cardinality(R)
         /\ Cardinality(R) \in Nat
         /\ \A k \in 1..Cardinality(R) : /\ InOrder(R)[k] \in R
                                        /\ IdsOf(R)[k] = InOrder(R)[k].id
                                        /\ MatOf(R)[k] = InOrder(R)[k].voice
<1> DEFINE c == Cardinality(R)
           s == InOrder(R)
<1>1. c \in Nat
  BY FS_CardinalityType DEF Keyed
<1>2. DOMAIN s = 1..c
  BY DEF InOrder
<1>3. \A k \in 1..c : s[k] \in R
  BY InOrderProperties
<1>4. IdsOf(R) = [k \in 1..c |-> s[k].id] /\ MatOf(R) = [k \in 1..c |-> s[k].voice]
  BY <1>2 DEF IdsOf, MatOf
<1> HIDE DEF c, s
<1>5. \A k \in 1..c : s[k].id \in Ids /\ s[k].voice \in Voices
  BY <1>3 DEF Embedding
<1>6. IdsOf(R) \in Seq(Ids) /\ MatOf(R) \in Seq(Voices)
  BY <1>1, <1>4, <1>5
<1>7. Len(IdsOf(R)) = c /\ Len(MatOf(R)) = c
  BY <1>1, <1>4, <1>6
<1>8. \A k \in 1..c : IdsOf(R)[k] = s[k].id /\ MatOf(R)[k] = s[k].voice
  BY <1>4
<1> QED  BY <1>1, <1>3, <1>6, <1>7, <1>8 DEF c, s

LEMMA RowTyped ==
  ASSUME SInv, NEW r \in Requests, req[r].pc = "insert"
  PROVE  /\ Row(r) \in Embedding /\ Keyed(rows \cup {Row(r)})
         /\ Row(r) \notin rows /\ Row(r).row \in Nat /\ \A e \in rows : e.row < Row(r).row
<1> DEFINE q == req[r]
<1>1. Proper(q) /\ q.op \in Embeds
  BY DEF SInv, Proper
<1>2. q.id \in Ids /\ q.clip \in Clips /\ (q.op # "sample" => q.inv \in Invites)
  BY <1>1 DEF Proper, Embeds, InviteOps
<1>3. Head(q.clip) \in Voices
  <2>1. q.clip \in Seq(Voices) /\ q.clip # << >>
    BY <1>2, ServiceAssumption
  <2> QED  BY <2>1
<1>4. NextRow \in Nat /\ \A e \in rows : e.row < NextRow
  BY NextRowIsNew DEF SInv, TablesOK
<1>5. Row(r) \in Embedding /\ Row(r).row = NextRow
  BY <1>2, <1>3, <1>4 DEF Row, Embedding
<1>6. Row(r) \notin rows
  BY <1>4, <1>5
<1> HIDE DEF q
<1>7. Keyed(rows \cup {Row(r)})
  BY <1>4, <1>5, <1>6, ReadLast DEF SInv, TablesOK
<1> QED  BY <1>4, <1>5, <1>6, <1>7

LEMMA InsertTyped ==
  ASSUME SInv, IInv', NEW r \in Requests, Insert(r)
  PROVE  SInv'
<1> DEFINE q == req[r]
<1>1. UNCHANGED <<profiles, invites, mirror, load, arrived, restarts>> /\ q.pc = "insert" /\ Proper(q)
  BY DEF Insert, SInv
<1>2. CASE fk /\ q.id \notin profiles
  <2>1. Answer(r, 500) /\ UNCHANGED rows
    BY <1>2 DEF Insert, Refused
  <2>2. 500 \in Statuses
    BY DEF Statuses
  <2> QED  BY <1>1, <2>1, <2>2, TablesStay, AnswerOK
<1>3. CASE ~(fk /\ q.id \notin profiles)
  <2>1. rows' = rows \cup {Row(r)} /\ req' = [req EXCEPT ![r].pc = "ids"]
    BY <1>3 DEF Insert, Goto
  <2>2. TablesOK'
    <3>1. rows' \subseteq Embedding /\ Keyed(rows')
      BY <1>1, <2>1, RowTyped DEF SInv, TablesOK
    <3>2. Keyed(rows)'
      BY <3>1 DEF Keyed
    <3> QED  BY <1>1, <3>1, <3>2 DEF SInv, TablesOK
  <2>3. Wrote(r, "ids", q.id, q.mat, q.verdicts, q.torn, q.status)
    BY <2>1, Writes DEF SInv, IInv, Shaped
  <2>4. FieldsTyped(req'[r])
    BY <1>1, <2>3 DEF Wrote, Edits, Proper, FieldsTyped, Pcs, LoopPcs
  <2>5. Proper(req'[r])
    BY <1>1, <2>3, <2>4 DEF Wrote, Edits, Proper
  <2> QED  BY <1>1, <2>2, <2>3, <2>5, ServedOK
<1> QED  BY <1>2, <1>3

\* The reload of a deletion marks the queries between their two reads as torn.
Torn(n, q) == Edits(n, q, q.pc, q.id, q.mat, q.verdicts, TRUE, q.status)

TornBy(r, pcs) ==
  \A q \in Requests \ {r} :
    IF req[r].op = "delete" /\ req[q].pc \in pcs THEN Torn(req'[q], req[q]) ELSE req'[q] = req[q]

Reloads(r, pcs, pc, status) ==
  /\ ReqShaped'
  /\ Edits(req'[r], req[r], pc, req[r].id, req[r].mat, req[r].verdicts, req[r].torn, status)
  /\ TornBy(r, pcs)

LEMMA TearsProperties ==
  ASSUME ReqShaped, NEW r \in Requests, NEW pcs, req[r].pc \notin pcs
  PROVE  /\ Tears(r, pcs) = [q \in Requests |-> Tears(r, pcs)[q]]
         /\ Tears(r, pcs)[r] = req[r]
         /\ \A q \in Requests :
              IF req[r].op = "delete" /\ req[q].pc \in pcs
              THEN Torn(Tears(r, pcs)[q], req[q]) ELSE Tears(r, pcs)[q] = req[q]
<1>1. \A q \in Requests : IsRecord(req[q])
  BY SMTT(30) DEF ReqShaped, IsRecord
<1>2. \A q \in Requests :
        Torn([req[q] EXCEPT !.torn = TRUE], req[q])
  BY <1>1, Edited DEF Torn
<1>3. ASSUME NEW q \in Requests
      PROVE  Tears(r, pcs)[q] = IF req[r].op = "delete" /\ req[q].pc \in pcs
                                THEN [req[q] EXCEPT !.torn = TRUE] ELSE req[q]
  BY Zenon DEF Tears
<1>4. Tears(r, pcs) = [q \in Requests |-> Tears(r, pcs)[q]]
  BY Zenon DEF Tears
<1>5. ASSUME NEW q \in Requests
      PROVE  IF req[r].op = "delete" /\ req[q].pc \in pcs
             THEN Torn(Tears(r, pcs)[q], req[q]) ELSE Tears(r, pcs)[q] = req[q]
  BY <1>2, <1>3
<1>6. Tears(r, pcs)[r] = req[r]
  BY <1>3
<1> QED  BY <1>4, <1>5, <1>6

LEMMA ReloadWrites ==
  ASSUME ReqShaped, NEW r \in Requests, NEW pcs, NEW pc, NEW status, req[r].pc \notin pcs
  PROVE  /\ req' = [Tears(r, pcs) EXCEPT ![r].pc = pc] => Reloads(r, pcs, pc, req[r].status)
         /\ req' = [Tears(r, pcs) EXCEPT ![r].pc = pc, ![r].status = status]
              => Reloads(r, pcs, pc, status)
<1> DEFINE torn == Tears(r, pcs)
<1>1. /\ torn = [q \in Requests |-> torn[q]] /\ torn[r] = req[r]
      /\ \A q \in Requests :
           IF req[r].op = "delete" /\ req[q].pc \in pcs
           THEN Torn(torn[q], req[q]) ELSE torn[q] = req[q]
  BY TearsProperties
<1> HIDE DEF torn
<1>2. \A q \in Requests : IsRecord(req[q]) /\ IsRecord(torn[q])
  BY <1>1 DEF ReqShaped, IsRecord, Torn, Edits
<1>3. ASSUME NEW n, Edits(n, req[r], pc, req[r].id, req[r].mat, req[r].verdicts, req[r].torn, n.status),
             req' = [q \in Requests |-> req'[q]], req'[r] = n,
             \A q \in Requests \ {r} : req'[q] = torn[q]
      PROVE  Reloads(r, pcs, pc, n.status)
  <2>1. \A q \in Requests : IsRecord(req'[q])
    BY <1>2, <1>3 DEF Edits
  <2>2. ReqShaped'
    BY <1>3, <2>1 DEF ReqShaped, IsRecord
  <2>3. TornBy(r, pcs)
    BY <1>1, <1>3 DEF TornBy
  <2> QED  BY <1>3, <2>2, <2>3 DEF Reloads
<1>4. ASSUME req' = [torn EXCEPT ![r].pc = pc]
      PROVE  Reloads(r, pcs, pc, req[r].status)
  <2> DEFINE n == [req[r] EXCEPT !.pc = pc]
  <2>1. Edits(n, req[r], pc, req[r].id, req[r].mat, req[r].verdicts, req[r].torn, req[r].status)
    BY <1>2, Edited
  <2>2. /\ req' = [q \in Requests |-> req'[q]] /\ req'[r] = n
        /\ \A q \in Requests \ {r} : req'[q] = torn[q]
    BY <1>1, <1>4
  <2> HIDE DEF n
  <2>3. n.status = req[r].status
    BY <2>1 DEF Edits
  <2> QED  BY <1>3, <2>1, <2>2, <2>3, SMTT(30)
<1>5. ASSUME req' = [torn EXCEPT ![r].pc = pc, ![r].status = status]
      PROVE  Reloads(r, pcs, pc, status)
  <2> DEFINE n == [req[r] EXCEPT !.pc = pc, !.status = status]
  <2>1. Edits(n, req[r], pc, req[r].id, req[r].mat, req[r].verdicts, req[r].torn, status)
    BY <1>2, Edited
  <2>2. /\ req' = [q \in Requests |-> req'[q]] /\ req'[r] = n
        /\ \A q \in Requests \ {r} : req'[q] = torn[q]
    BY <1>1, <1>5
  <2> HIDE DEF n
  <2>3. n.status = status
    BY <2>1 DEF Edits
  <2> QED  BY <1>3, <2>1, <2>2, <2>3, SMTT(30)
<1> QED  BY <1>4, <1>5 DEF torn

LEMMA TornProper ==
  ASSUME NEW q, Proper(q), NEW n, Torn(n, q)
  PROVE  Proper(n)
<1>1. FieldsTyped(n)
  BY Zenon DEF Proper, FieldsTyped, Torn, Edits
<1> QED  BY <1>1 DEF Proper, Torn, Edits

LEMMA ReloadsOK ==
  ASSUME SInv, IInv', TablesOK', UNCHANGED <<load, arrived, restarts>>,
         NEW r \in Requests, NEW pcs, NEW pc \in {"mat", "answered"}, NEW status \in Statuses,
         req[r].op \in Embeds \cup {"delete"}, Reloads(r, pcs, pc, status)
  PROVE  SInv'
<1>1. Proper(req[r])
  BY DEF SInv
<1>2. FieldsTyped(req'[r])
  BY <1>1 DEF Reloads, Edits, Proper, FieldsTyped, Pcs, LoopPcs
<1>3. Proper(req'[r])
  BY <1>1, <1>2 DEF Reloads, Edits, Proper, Embeds
<1>4. \A q \in Requests \ {r} : Proper(req'[q])
  BY TornProper DEF Reloads, TornBy, SInv
<1> QED  BY <1>3, <1>4 DEF SInv, CountersOK

LEMMA ReloadIdsTyped ==
  ASSUME SInv, IInv', NEW r \in Requests, ReloadIds(r)
  PROVE  SInv'
<1>1. /\ UNCHANGED <<profiles, rows, invites, load, arrived, restarts>> /\ req[r].pc = "ids"
      /\ mirror' = [mirror EXCEPT !.ids = IdsOf(rows)]
      /\ req' = [Tears(r, {"zip"}) EXCEPT ![r].pc = "mat"]
  BY DEF ReloadIds, tables
<1>2. TablesOK'
  <2>1. IdsOf(rows) \in Seq(Ids)
    BY ReloadRead DEF SInv, TablesOK
  <2> QED  BY <1>1, <2>1 DEF SInv, TablesOK, Keyed
<1>3. Proper(req[r])
  BY DEF SInv
<1>4. Reloads(r, {"zip"}, "mat", req[r].status)
  BY <1>1, ReloadWrites DEF SInv, IInv, Shaped
<1>5. req[r].op \in Embeds \cup {"delete"} /\ req[r].status \in Statuses
  BY <1>1, <1>3 DEF Proper, FieldsTyped
<1> QED  BY <1>1, <1>2, <1>4, <1>5, ReloadsOK

LEMMA ReloadMatTyped ==
  ASSUME SInv, IInv', NEW r \in Requests, ReloadMat(r)
  PROVE  SInv'
<1> DEFINE q == req[r]
<1>1. /\ UNCHANGED <<profiles, rows, invites, load, arrived, restarts>> /\ q.pc = "mat"
      /\ mirror' = [mirror EXCEPT !.mat = MatOf(rows)]
  BY DEF ReloadMat, tables
<1>2. TablesOK'
  <2>1. MatOf(rows) \in Seq(Voices)
    BY ReloadRead DEF SInv, TablesOK
  <2> QED  BY <1>1, <2>1 DEF SInv, TablesOK, Keyed
<1>3. Proper(q)
  BY DEF SInv
<1>4. CASE q.op = "invite_sample"
  <2>1. req' = [req EXCEPT ![r].pc = "touch"]
    BY <1>4 DEF ReloadMat
  <2>2. Wrote(r, "touch", q.id, q.mat, q.verdicts, q.torn, q.status)
    BY <2>1, Writes DEF SInv, IInv, Shaped
  <2>3. FieldsTyped(req'[r])
    BY <1>3, <2>2 DEF Wrote, Edits, Proper, FieldsTyped, Pcs, LoopPcs
  <2>4. Proper(req'[r])
    BY <1>3, <1>4, <2>2, <2>3 DEF Wrote, Edits, Proper
  <2> QED  BY <1>1, <1>2, <2>2, <2>4, ServedOK
<1>5. CASE q.op # "invite_sample"
  <2> DEFINE status == IF q.status = 0 THEN 200 ELSE q.status
  <2>1. Tears(r, {"zip"})[r].status = q.status
    BY <1>1, TearsProperties DEF SInv, IInv, Shaped
  <2>2. req' = [Tears(r, {"zip"}) EXCEPT ![r].pc = "answered", ![r].status = status]
    BY <1>5, <2>1 DEF ReloadMat
  <2>3. status \in Statuses
    BY <1>3 DEF Proper, FieldsTyped, Statuses
  <2> HIDE DEF status
  <2>4. Reloads(r, {"zip"}, "answered", status)
    BY <1>1, <2>2, ReloadWrites DEF SInv, IInv, Shaped
  <2>5. q.op \in Embeds \cup {"delete"}
    BY <1>1, <1>3 DEF Proper
  <2> QED  BY <1>1, <1>2, <2>3, <2>4, <2>5, ReloadsOK
<1> QED  BY <1>4, <1>5

LEMMA LinkTyped ==
  ASSUME NEW link \in Invite
  PROVE  /\ [link EXCEPT !.samples = @ + 1] \in Invite
         /\ [link EXCEPT !.state = "gone"] \in Invite
         /\ [link EXCEPT !.revoked = TRUE] \in Invite
         /\ [link EXCEPT !.expired = TRUE] \in Invite
<1>1. [link EXCEPT !.samples = @ + 1] \in Invite
  BY DEF Invite
<1>2. [link EXCEPT !.state = "gone"] \in Invite
  BY DEF Invite
<1>3. \A yes \in BOOLEAN : [link EXCEPT !.revoked = yes] \in Invite
  BY DEF Invite
<1>4. \A yes \in BOOLEAN : [link EXCEPT !.expired = yes] \in Invite
  BY DEF Invite
<1> QED  BY <1>1, <1>2, <1>3, <1>4

LEMMA TouchTyped ==
  ASSUME SInv, IInv', NEW r \in Requests, TouchInvite(r) \/ RevokeInvite(r)
  PROVE  SInv'
<1> DEFINE q == req[r]
           i == q.inv
<1>1. /\ UNCHANGED <<profiles, rows, mirror, load, arrived, restarts>>
      /\ \E status \in {200, 404} : Answer(r, status)
  BY DEF TouchInvite, RevokeInvite, tables
<1>2. \/ UNCHANGED invites
      \/ invites' = [invites EXCEPT ![i].samples = @ + 1]
      \/ invites' = [invites EXCEPT ![i].revoked = TRUE]
  BY Zenon DEF TouchInvite, RevokeInvite
<1>3. i \in Invites
  BY DEF SInv, Proper, TouchInvite, RevokeInvite, At, InviteOps
<1>4. invites' \in [Invites -> Invite]
  <2>1. invites \in [Invites -> Invite]
    BY DEF SInv, TablesOK
  <2>2. invites[i] \in Invite
    BY <1>3, <2>1
  <2>3. CASE invites' = [invites EXCEPT ![i].samples = @ + 1]
    <3>1. invites' = [invites EXCEPT ![i] = [invites[i] EXCEPT !.samples = @ + 1]]
      BY <2>3
    <3>2. [invites[i] EXCEPT !.samples = @ + 1] \in Invite
      BY <2>2, LinkTyped
    <3> QED  BY <2>1, <3>1, <3>2
  <2>4. CASE invites' = [invites EXCEPT ![i].revoked = TRUE]
    <3>1. invites' = [invites EXCEPT ![i] = [invites[i] EXCEPT !.revoked = TRUE]]
      BY <2>4
    <3>2. [invites[i] EXCEPT !.revoked = TRUE] \in Invite
      BY <2>2, LinkTyped
    <3> QED  BY <2>1, <3>1, <3>2
  <2> QED  BY <1>2, <2>1, <2>3, <2>4
<1>5. TablesOK'
  BY <1>1, <1>4 DEF SInv, TablesOK, Keyed
<1>6. {200, 404} \subseteq Statuses
  BY DEF Statuses
<1> QED  BY <1>1, <1>5, <1>6, AnswerOK

LEMMA CreateTyped ==
  ASSUME SInv, IInv', NEW r \in Requests, CreateSpeaker(r) \/ SetConsent(r)
  PROVE  SInv'
<1>1. /\ UNCHANGED <<rows, invites, mirror, load, arrived, restarts>> /\ Answer(r, 200)
  BY DEF CreateSpeaker, SetConsent
<1>2. profiles' \subseteq Ids
  <2>1. CASE CreateSpeaker(r)
    <3>1. req[r].id \in Ids
      BY <2>1 DEF CreateSpeaker, At, SInv, Proper
    <3> QED  BY <2>1, <3>1 DEF CreateSpeaker, SInv, TablesOK
  <2>2. CASE SetConsent(r)
    BY <2>2 DEF SetConsent, SInv, TablesOK
  <2> QED  BY <2>1, <2>2
<1>3. TablesOK'
  BY <1>1, <1>2 DEF SInv, TablesOK, Keyed
<1>4. 200 \in Statuses
  BY DEF Statuses
<1> QED  BY <1>1, <1>3, <1>4, AnswerOK

LEMMA DeleteTyped ==
  ASSUME SInv, IInv', NEW r \in Requests, DeleteSpeaker(r)
  PROVE  SInv'
<1> DEFINE q == req[r]
<1>1. /\ UNCHANGED <<mirror, load, arrived, restarts>> /\ q.op = "delete" /\ q.pc = "arrived"
      /\ profiles' = profiles \ {q.id} /\ rows' = {e \in rows : e.id # q.id} /\ Proper(q)
  BY DEF DeleteSpeaker, At, SInv
<1>2. invites' \in [Invites -> Invite]
  <2>1. invites' = [i \in Invites |->
           IF Live(i) /\ invites[i].id = q.id THEN [invites[i] EXCEPT !.state = "gone"]
           ELSE invites[i]]
    BY DEF DeleteSpeaker
  <2>2. \A i \in Invites : invites[i] \in Invite /\ [invites[i] EXCEPT !.state = "gone"] \in Invite
    BY LinkTyped DEF SInv, TablesOK
  <2> QED  BY <2>1, <2>2
<1>3. TablesOK'
  <2>1. rows' \in SUBSET rows
    BY <1>1
  <2>2. IsFiniteSet(rows')
    BY <2>1, FS_Subset DEF SInv, TablesOK, Keyed
  <2> QED  BY <1>1, <1>2, <2>1, <2>2 DEF SInv, TablesOK, Keyed
<1> DEFINE status == IF q.id \in profiles THEN 200 ELSE 404
<1>4. req' = [req EXCEPT ![r].pc = "ids", ![r].status = status] /\ status \in Statuses
  BY DEF DeleteSpeaker, Statuses
<1> HIDE DEF status
<1>5. Wrote(r, "ids", q.id, q.mat, q.verdicts, q.torn, status)
  BY <1>4, Writes DEF SInv, IInv, Shaped
<1>6. FieldsTyped(req'[r])
  BY <1>1, <1>4, <1>5 DEF Wrote, Edits, Proper, FieldsTyped, Pcs, LoopPcs
<1>7. Proper(req'[r])
  BY <1>1, <1>5, <1>6 DEF Wrote, Edits, Proper
<1> QED  BY <1>1, <1>3, <1>5, <1>7, ServedOK

LEMMA FindTyped ==
  ASSUME SInv, IInv', NEW r \in Requests, FindSpeaker(r)
  PROVE  SInv'
<1> DEFINE q == req[r]
<1>1. /\ UNCHANGED <<rows, invites, mirror, load, arrived, restarts>>
      /\ q.op = "invite" /\ q.pc = "arrived" /\ Proper(q)
      /\ profiles' \subseteq profiles \cup {q.id}
      /\ Goto(r, "write") \/ Answer(r, 404)
  BY DEF FindSpeaker, At, SInv
<1>2. TablesOK'
  <2>1. q.id \in Ids
    BY <1>1 DEF Proper
  <2> QED  BY <1>1, <2>1 DEF SInv, TablesOK, Keyed
<1>3. CASE Goto(r, "write")
  <2>1. Wrote(r, "write", q.id, q.mat, q.verdicts, q.torn, q.status)
    BY <1>3, Writes DEF Goto, SInv, IInv, Shaped
  <2>2. FieldsTyped(req'[r])
    BY <1>1, <2>1 DEF Wrote, Edits, Proper, FieldsTyped, Pcs, LoopPcs
  <2>3. Proper(req'[r])
    BY <1>1, <2>1, <2>2 DEF Wrote, Edits, Proper
  <2> QED  BY <1>1, <1>2, <2>1, <2>3, ServedOK
<1>4. CASE Answer(r, 404)
  <2>1. 404 \in Statuses
    BY DEF Statuses
  <2> QED  BY <1>1, <1>2, <1>4, <2>1, AnswerOK
<1> QED  BY <1>1, <1>3, <1>4

LEMMA AddInviteTyped ==
  ASSUME SInv, IInv', NEW r \in Requests, AddInvite(r)
  PROVE  SInv'
<1> DEFINE q == req[r]
<1>1. /\ UNCHANGED <<profiles, rows, mirror, load, arrived, restarts>>
      /\ q.op = "invite" /\ Proper(q)
      /\ \E status \in {200, 500} : Answer(r, status)
  BY DEF AddInvite, Refused, At, SInv
<1>2. invites' \in [Invites -> Invite]
  <2>1. CASE UNCHANGED invites
    BY <2>1 DEF SInv, TablesOK
  <2>2. ASSUME NEW i \in Invites,
               invites' = [invites EXCEPT ![i] =
                    [state |-> "live", id |-> q.id, revoked |-> FALSE,
                     expired |-> FALSE, samples |-> 0]]
        PROVE  invites' \in [Invites -> Invite]
    <3>1. q.id \in Ids
      BY <1>1 DEF Proper
    <3>2. [state |-> "live", id |-> q.id, revoked |-> FALSE, expired |-> FALSE, samples |-> 0]
            \in Invite
      BY <3>1 DEF Invite
    <3> QED  BY <2>2, <3>2 DEF SInv, TablesOK
  <2> QED  BY <2>1, <2>2 DEF AddInvite
<1>3. TablesOK'
  BY <1>1, <1>2 DEF SInv, TablesOK, Keyed
<1>4. {200, 500} \subseteq Statuses
  BY DEF Statuses
<1> QED  BY <1>1, <1>3, <1>4, AnswerOK

LEMMA ServeTyped ==
  ASSUME SInv, NEW r \in Requests, Serve(r)
  PROVE  SInv'
<1>1. IInv'
  BY ServeStep DEF SInv
<1> QED  BY <1>1, ValidateTyped, EmbedTyped, InsertTyped, ReloadIdsTyped, ReloadMatTyped,
            TouchTyped, CreateTyped, DeleteTyped, FindTyped, AddInviteTyped,
            QueryMatTyped, QueryZipTyped DEF Serve

\* What callers may ask for.
Asks(op, id, inv, clip) ==
  /\ op \in AsyncOps \cup {"create", "delete", "invite", "revoke", "consent"}
  /\ id \in Ids \cup {NoSpeaker} /\ inv \in Invites \cup {NoInvite} /\ clip \in Clips \cup {<< >>}
  /\ op \in {"sample", "create", "delete", "invite"} => id \in Ids
  /\ op \in Embeds \cup Questions \cup {"test"} => clip \in Clips
  /\ op \in InviteOps \cup {"revoke"} => inv \in Invites

New(op, id, inv, clip) ==
  [NoRequest EXCEPT !.op = op, !.id = id, !.inv = inv, !.clip = clip,
                    !.pc = IF op \in Questions THEN "read" ELSE "arrived"]

IsNew(n, op, id, inv, clip) ==
  /\ IsRecord(n) /\ n.op = op /\ n.id = id /\ n.inv = inv /\ n.clip = clip
  /\ n.pc = (IF op \in Questions THEN "read" ELSE "arrived")
  /\ n.mat = << >> /\ n.verdicts = << >> /\ n.torn = FALSE /\ n.status = 0

LEMMA NewFields ==
  ASSUME NEW op, NEW id, NEW inv, NEW clip
  PROVE  IsNew(New(op, id, inv, clip), op, id, inv, clip)
<1> DEFINE pc == IF op \in Questions THEN "read" ELSE "arrived"
           n == [NoRequest EXCEPT !.op = op, !.id = id, !.inv = inv, !.clip = clip, !.pc = pc]
<1>1. New(op, id, inv, clip) = n
  BY DEF New
<1> HIDE DEF pc
<1>2. /\ IsRecord(n) /\ n.op = op /\ n.id = id /\ n.inv = inv /\ n.clip = clip /\ n.pc = pc
      /\ n.mat = << >> /\ n.verdicts = << >> /\ n.torn = FALSE /\ n.status = 0
  BY DEF NoRequest, IsRecord, Fields
<1> HIDE DEF n
<1> QED  BY <1>1, <1>2 DEF pc, IsNew

\* A request arrives and the others stay as they are.
Arrived(r, n) ==
  /\ r = arrived + 1 /\ r \in Requests /\ arrived' = r
  /\ UNCHANGED <<load, tables, fk, lock, mirror, restarts, past>>
  /\ req[r].pc = "free" /\ req'[r] = n
  /\ \A q \in Requests \ {r} : req'[q] = req[q]

LEMMA ArriveIs ==
  ASSUME SInv, NEW op, NEW id, NEW inv, NEW clip, Arrive(op, id, inv, clip)
  PROVE  Arrived(arrived + 1, New(op, id, inv, clip))
<1>1. arrived + 1 \in Requests
  BY LoadsKnown DEF Arrive, Requests, SInv, CountersOK
<1>2. req[arrived + 1].pc = "free"
  BY <1>1 DEF SInv, IInv, Numbered, Requests
<1>3. req' = [req EXCEPT ![arrived + 1] = New(op, id, inv, clip)]
  BY DEF Arrive, New
<1>4. req = [r \in Requests |-> req[r]]
  BY DEF SInv, IInv, Shaped, ReqShaped
<1> QED  BY <1>1, <1>2, <1>3, <1>4 DEF Arrived, Arrive

LEMMA ArriveTyped ==
  ASSUME SInv, NEW op, NEW id, NEW inv, NEW clip, Arrive(op, id, inv, clip), Asks(op, id, inv, clip)
  PROVE  SInv'
<1> DEFINE r == arrived + 1
           n == New(op, id, inv, clip)
<1>1. Arrived(r, n) /\ IInv'
  BY ArriveIs, ArriveStep DEF SInv
<1>2. TablesOK'
  BY <1>1, TablesStay DEF Arrived, tables
<1>3. CountersOK'
  BY <1>1 DEF Arrived, CountersOK, SInv, Requests
<1>4. Proper(n)
  <2> HIDE DEF n
  <2>0. IsNew(n, op, id, inv, clip)
    BY NewFields DEF n
  <2>1. /\ IsRecord(n) /\ n.op = op /\ n.id = id /\ n.inv = inv /\ n.clip = clip
        /\ n.pc \in {"read", "arrived"} /\ (n.pc = "read" => op \in Questions)
        /\ n.mat = << >> /\ n.verdicts = << >> /\ n.status = 0
    BY <2>0 DEF IsNew
  <2>2. << >> \in Seq(Voices) /\ << >> \in Seq(Verdicts) /\ Len(<< >>) <= 1
    OBVIOUS
  <2>3. n.torn \in BOOLEAN
    BY <2>0, Zenon DEF IsNew
  <2>4. n.pc \in Pcs /\ n.status \in Statuses
    BY <2>1 DEF Pcs, LoopPcs, Statuses
  <2>5. FieldsTyped(n)
    BY <2>1, <2>2, <2>3, <2>4 DEF Asks, FieldsTyped
  <2> QED  BY <2>1, <2>2, <2>5 DEF Asks, Proper, Questions, AsyncOps
<1> HIDE DEF r, n
<1>5. \A q \in Requests : Proper(req'[q])
  BY <1>1, <1>4 DEF Arrived, SInv
<1> QED  BY <1>1, <1>2, <1>3, <1>5 DEF SInv

\* What the callers choose from is what the service takes.
LEMMA AskArrives ==
  ASSUME NEW op \in load.ops, Ask(op)
  PROVE  \E id, inv, clip : /\ Arrive(op, id, inv, clip) /\ Asks(op, id, inv, clip)
                            /\ inv \in Given \cup {NoInvite}
<1>1. CASE op \in {"create", "delete", "invite"}
  <2>1. PICK id \in Ids : Arrive(op, id, NoInvite, << >>)
    BY <1>1 DEF Ask, Questions
  <2>2. Asks(op, id, NoInvite, << >>)
    BY <1>1 DEF Asks, Embeds, Questions, InviteOps
  <2> QED  BY <2>1, <2>2
<1>2. CASE op = "sample"
  <2>1. PICK id \in Ids, c \in Clips : Arrive(op, id, NoInvite, c)
    BY <1>2 DEF Ask, Questions
  <2>2. Asks(op, id, NoInvite, c)
    BY <1>2 DEF Asks, AsyncOps, Embeds, Questions, InviteOps
  <2> QED  BY <2>1, <2>2
<1>3. CASE op \in {"revoke", "consent"}
  <2>1. PICK i \in Given : Arrive(op, NoSpeaker, i, << >>)
    BY <1>3 DEF Ask, Questions
  <2>2. Asks(op, NoSpeaker, i, << >>)
    BY <1>3 DEF Asks, Embeds, Questions, InviteOps, Given
  <2> QED  BY <2>1, <2>2
<1>4. CASE op \in {"invite_sample", "test"}
  <2>1. PICK i \in Given, c \in Clips : Arrive(op, NoSpeaker, i, c)
    BY <1>4 DEF Ask, Questions
  <2>2. Asks(op, NoSpeaker, i, c)
    BY <1>4 DEF Asks, AsyncOps, Embeds, Questions, InviteOps, Given
  <2> QED  BY <2>1, <2>2
<1>5. CASE op \in Questions
  <2>1. PICK c \in Clips : Arrive(op, NoSpeaker, NoInvite, c)
    BY <1>5 DEF Ask, Questions
  <2>2. Asks(op, NoSpeaker, NoInvite, c)
    BY <1>5 DEF Asks, AsyncOps, Embeds, Questions, InviteOps
  <2> QED  BY <2>1, <2>2
<1> QED  BY <1>1, <1>2, <1>3, <1>4, <1>5 DEF Ask

LEMMA AskTyped ==
  ASSUME SInv, NEW op \in load.ops, Ask(op)
  PROVE  SInv'
BY AskArrives, ArriveTyped

LEMMA ExpireTyped ==
  ASSUME SInv, NEW i \in Invites, Expire(i)
  PROVE  SInv'
<1>1. IInv' /\ UNCHANGED <<profiles, rows, mirror, req, load, arrived, restarts>>
  BY ExpireStep DEF Expire, SInv
<1>2. invites' \in [Invites -> Invite]
  <2>1. invites \in [Invites -> Invite] /\ [invites[i] EXCEPT !.expired = TRUE] \in Invite
    BY LinkTyped DEF SInv, TablesOK
  <2>2. invites' = [invites EXCEPT ![i] = [invites[i] EXCEPT !.expired = TRUE]]
    BY DEF Expire
  <2> QED  BY <2>1, <2>2
<1> QED  BY <1>1, <1>2 DEF SInv, TablesOK, Keyed, CountersOK

\* A restart loses the requests under way and changes no other.
Lost(n, q) == Edits(n, q, "lost", q.id, q.mat, q.verdicts, q.torn, q.status)

LEMMA RestartIs ==
  ASSUME SInv, Restart
  PROVE  /\ UNCHANGED <<tables, load, arrived>> /\ restarts' = restarts + 1 /\ mirror' = Loaded
         /\ \A r \in Requests : IF Pending(r) THEN Lost(req'[r], req[r]) ELSE req'[r] = req[r]
<1>1. \A r \in Requests : Lost([req[r] EXCEPT !.pc = "lost"], req[r])
  BY Edited DEF Lost, SInv, Proper
<1>2. \A r \in Requests :
        req'[r] = IF Pending(r) THEN [req[r] EXCEPT !.pc = "lost"] ELSE req[r]
  BY DEF Restart
<1> QED  BY <1>1, <1>2 DEF Restart

LEMMA RestartTyped ==
  ASSUME SInv, Restart
  PROVE  SInv'
<1>1. /\ UNCHANGED <<tables, load, arrived>> /\ restarts' = restarts + 1 /\ mirror' = Loaded
      /\ \A r \in Requests : IF Pending(r) THEN Lost(req'[r], req[r]) ELSE req'[r] = req[r]
  BY RestartIs
<1>2. IInv'
  BY RestartStep DEF SInv
<1>3. TablesOK'
  <2>1. IdsOf(rows) \in Seq(Ids) /\ MatOf(rows) \in Seq(Voices)
    BY ReloadRead DEF SInv, TablesOK
  <2> QED  BY <1>1, <2>1 DEF SInv, TablesOK, Keyed, Loaded, tables
<1>4. CountersOK'
  BY <1>1 DEF SInv, CountersOK
<1>5. ASSUME NEW r \in Requests PROVE Proper(req'[r])
  <2>1. Proper(req[r])
    BY DEF SInv
  <2>2. ASSUME Lost(req'[r], req[r]) PROVE Proper(req'[r])
    <3>1. FieldsTyped(req'[r])
      BY <2>1, <2>2 DEF Lost, Edits, Proper, FieldsTyped, Pcs, LoopPcs
    <3> QED  BY <2>1, <2>2, <3>1 DEF Lost, Edits, Proper
  <2> QED  BY <1>1, <2>1, <2>2
<1> QED  BY <1>2, <1>3, <1>4, <1>5 DEF SInv

LEMMA InitiallyTyped ==
  ASSUME NEW stored, StoredSound(stored), StoredTyped(stored), InitService(stored)
  PROVE  SInv
<1>1. IInv
  BY Initially
<1>2. rows \subseteq Embedding /\ Keyed(rows)
  BY DEF InitService, StoredTyped, Keyed, Embedding
<1>3. TablesOK
  <2>1. IdsOf(rows) \in Seq(Ids) /\ MatOf(rows) \in Seq(Voices)
    BY <1>2, ReloadRead
  <2> QED  BY <1>2, <2>1 DEF InitService, StoredTyped, StoredSound, TablesOK
<1>4. CountersOK
  BY ServiceAssumption DEF InitService, CountersOK
<1>5. Proper(NoRequest)
  <2>1. IsRecord(NoRequest)
    BY DEF NoRequest, IsRecord, Fields
  <2>2. FieldsTyped(NoRequest)
    BY DEF NoRequest, FieldsTyped, Pcs, LoopPcs, Statuses
  <2> QED  BY <2>1, <2>2 DEF NoRequest, Proper, Embeds, Questions, InviteOps
<1>6. \A r \in Requests : Proper(req[r])
  BY <1>5 DEF InitService
<1> QED  BY <1>1, <1>3, <1>4, <1>6 DEF SInv

LEMMA StaysTyped ==
  ASSUME SInv, UNCHANGED service
  PROVE  SInv'
<1>1. IInv'
  BY Idle DEF SInv
<1> QED  BY <1>1 DEF SInv, TablesOK, Keyed, CountersOK, service, tables

-----------------------------------------------------------------------------
(* What the service remembers of voices. *)

\* The pairs that a query reads off two fields were enrolled.
Fits(ids, mat, enrolled) ==
  Len(mat) <= Len(ids) /\ \A k \in 1..Len(mat) : <<ids[k], mat[k]>> \in enrolled

Enrolled == \A e \in rows : <<e.id, e.voice>> \in past.enrolled

\* Between the two writes of a deletion's reload the fields do not fit, and
\* whoever reads then is torn.
Shifting == \E d \in Requests : req[d].op = "delete" /\ req[d].pc = "mat"
MirrorFits == ~Shifting => Fits(mirror.ids, mirror.mat, past.enrolled)

\* A sample is added behind those that the mirror has.
LastAdded(e) ==
  /\ \A f \in rows \ {e} : f.row < e.row
  /\ mirror = [ids |-> IdsOf(rows \ {e}), mat |-> MatOf(rows \ {e})]
Adding == \A r \in Requests : req[r].op \in Embeds /\ req[r].pc = "ids" => \E e \in rows : LastAdded(e)

Matched(r) ==
  /\ req[r].op = "identify" /\ req[r].pc = "answered" => req[r].verdicts # << >>
  /\ ~req[r].torn => Named(r) \subseteq past.enrolled
  /\ ~req[r].torn /\ req[r].pc = "zip" => Fits(mirror.ids, req[r].mat, past.enrolled)

VInv == SInv /\ Enrolled /\ MirrorFits /\ Adding /\ \A r \in Requests : Matched(r)

-----------------------------------------------------------------------------
(* What a session has told of its turns. *)
TurnRecord ==
  [stage : {"silent", "spoken", "posted", "transcribed", "completed", "dropped"},
   clip : Clips \cup {<< >>}, item : Nat, completed : Nat,
   call : 0..MaxRequests, future : Label, label : Label]
Job   == [turn : Turns, item : Nat, call : 0..MaxRequests]
Conn  == [item : Nat, responding : BOOLEAN, next : Nat \ {0}]
Event == [kind : {"speech_started", "transcription_completed"}, turn : Turns]
         \cup [kind : {"transcription_corrected"}, turn : Turns, item : Nat, call : 0..MaxRequests]

SessionTyped ==
  /\ turn \in [Turns -> TurnRecord]
  /\ stt \in [pc : {"idle", "post", "join"}, turn : 0..MaxTurns]
  /\ pool \in Seq(Turns) /\ jobs \in Seq(Job) /\ textOutput \in Seq(Event)
  /\ conn \in Conn /\ opens \in Nat

Uttered     == {u \in Turns : turn[u].stage # "silent"}
Transcribed == {u \in Turns : turn[u].stage = "transcribed"}

\* A job corrects the item that a completed turn was announced under.
Announced == {j \in Job : turn[j.turn].stage = "completed" /\ j.item = turn[j.turn].completed}

\* A queue brings the transcripts of these turns, each of them once.
Heralds(e) == e.kind = "transcription_completed"
Orderly(queue, turns) ==
  /\ \A k \in DOMAIN queue : Heralds(queue[k]) => queue[k].turn \in turns
  /\ \A k, m \in DOMAIN queue :
       Heralds(queue[k]) /\ Heralds(queue[m]) /\ queue[k].turn = queue[m].turn => k = m

Staged ==
  /\ \A u \in Turns : IF turn[u].stage = "silent" THEN turn[u].call = NoCall
                      ELSE turn[u].clip \in Clips
  /\ pool \in Seq(Uttered) /\ jobs \in Seq(Announced)
  /\ stt.pc # "idle" => stt.turn \in Turns /\ turn[stt.turn].stage = "posted"
  /\ Orderly(textOutput, Transcribed)

\* A label of u is one its own call has returned.
OwnLabel(u, label) ==
  label.decision = "known" =>
    /\ turn[u].call # NoCall
    /\ ~req[turn[u].call].torn => <<label.id, Head(turn[u].clip)>> \in past.enrolled

OwnCall(u) ==
  /\ turn[u].call # NoCall =>
       /\ turn[u].call <= arrived
       /\ req[turn[u].call].op = "identify" /\ req[turn[u].call].clip = turn[u].clip
  /\ OwnLabel(u, turn[u].future) /\ OwnLabel(u, turn[u].label)

SessOK == SessionTyped /\ Staged /\ \A u \in Turns : OwnCall(u)
NInv == VInv /\ SessOK

-----------------------------------------------------------------------------
(* The service names a speaker for an enrolled voice only. *)

\* A step of r that matches nothing and tears nobody.
Quiet(r) ==
  /\ \A q \in Requests \ {r} : req'[q] = req[q]
  /\ req'[r].op = req[r].op /\ req'[r].inv = req[r].inv /\ req'[r].clip = req[r].clip
  /\ req'[r].torn = req[r].torn
  /\ req'[r].pc \notin {"zip", "mat"} /\ req[r].pc # "mat"
  /\ req'[r].op = "identify" /\ req'[r].pc = "answered" => req'[r].verdicts # << >>
  /\ Named(r)' \subseteq Named(r)

LEMMA WroteQuiet ==
  ASSUME NEW r \in Requests, NEW pc, NEW id, NEW mat, NEW status,
         Wrote(r, pc, id, mat, req[r].verdicts, req[r].torn, status),
         pc \notin {"zip", "mat"}, req[r].pc # "mat", pc = "answered" => req[r].op # "identify"
  PROVE  Quiet(r) /\ req'[r].pc = pc /\ req'[r].id = id
<1>1. /\ \A q \in Requests \ {r} : req'[q] = req[q]
      /\ req'[r].op = req[r].op /\ req'[r].inv = req[r].inv /\ req'[r].clip = req[r].clip
      /\ req'[r].torn = req[r].torn /\ req'[r].verdicts = req[r].verdicts
      /\ req'[r].pc = pc /\ req'[r].id = id
  BY DEF Wrote, Edits
<1>2. Named(r)' = Named(r)
  BY <1>1 DEF Named
<1> QED  BY <1>1, <1>2 DEF Quiet

LEMMA AnswerQuiet ==
  ASSUME SInv, NEW r \in Requests, NEW status, Answer(r, status),
         req[r].pc # "mat", req[r].op # "identify"
  PROVE  Quiet(r) /\ req'[r].pc = "answered"
<1>1. Wrote(r, "answered", req[r].id, req[r].mat, req[r].verdicts, req[r].torn, status)
  BY Writes DEF Answer, SInv, IInv, Shaped
<1> QED  BY <1>1, WroteQuiet, SMTT(30)

LEMMA GotoQuiet ==
  ASSUME SInv, NEW r \in Requests, NEW pc, Goto(r, pc),
         pc \notin {"zip", "mat", "answered"}, req[r].pc # "mat"
  PROVE  Quiet(r) /\ req'[r].pc = pc /\ req'[r].id = req[r].id
<1>1. Wrote(r, pc, req[r].id, req[r].mat, req[r].verdicts, req[r].torn, req[r].status)
  BY Writes DEF Goto, SInv, IInv, Shaped
<1> QED  BY <1>1, WroteQuiet

LEMMA ValidateQuiet ==
  ASSUME SInv, NEW r \in Requests, Validate(r)
  PROVE  /\ Quiet(r) /\ req[r].pc = "arrived" /\ req'[r].pc \in {"answered", "write", "read"}
         /\ req[r].op = "invite_sample" /\ req'[r].pc = "read" => req'[r].id = invites[req[r].inv].id
<1>1. req[r].pc = "arrived"
  BY DEF Validate
<1>2. CASE Admitted(r) # 0
  <2>1. req[r].op # "identify"
    BY <1>2 DEF Admitted, InviteOps
  <2> QED  BY <1>1, <1>2, <2>1, AnswerQuiet DEF Validate
<1>3. CASE Admitted(r) = 0
  <2> DEFINE pc == IF req[r].op = "consent" THEN "write" ELSE "read"
             id == IF req[r].op \in InviteOps THEN invites[req[r].inv].id ELSE req[r].id
  <2>1. req' = [req EXCEPT ![r].pc = pc, ![r].id = id]
    BY <1>3 DEF Validate
  <2>2. pc \in {"read", "write"} /\ (req[r].op = "invite_sample" => id = invites[req[r].inv].id)
    BY DEF InviteOps
  <2> HIDE DEF pc, id
  <2>3. Wrote(r, pc, id, req[r].mat, req[r].verdicts, req[r].torn, req[r].status)
    BY <2>1, Writes DEF SInv, IInv, Shaped
  <2>4. Quiet(r) /\ req'[r].pc = pc /\ req'[r].id = id
    BY <1>1, <2>2, <2>3, WroteQuiet
  <2> QED  BY <1>1, <2>2, <2>4
<1> QED  BY <1>2, <1>3

LEMMA EmbedQuiet ==
  ASSUME SInv, NEW r \in Requests, Embed(r)
  PROVE  /\ Quiet(r) /\ req[r].pc = "read" /\ req'[r].pc \in {"answered", "match", "insert"}
         /\ req'[r].pc = "insert" => req'[r].id = req[r].id
<1>1. req[r].pc = "read" /\ Proper(req[r])
  BY DEF Embed, SInv
<1>2. CASE Goto(r, IF req[r].op \in Embeds THEN "insert" ELSE "match")
  <2> DEFINE pc == IF req[r].op \in Embeds THEN "insert" ELSE "match"
  <2>1. pc \in {"insert", "match"} /\ Goto(r, pc)
    BY <1>2
  <2> HIDE DEF pc
  <2> QED  BY <1>1, <2>1, GotoQuiet
<1>3. CASE req' = [req EXCEPT ![r].pc = "answered",
                  ![r].status = IF req[r].op \in Questions THEN 200 ELSE 400,
                  ![r].verdicts = IF req[r].op = "identify" THEN <<Unknown>> ELSE << >>]
  <2> DEFINE status == IF req[r].op \in Questions THEN 200 ELSE 400
             verdicts == IF req[r].op = "identify" THEN <<Unknown>> ELSE << >>
  <2>1. req' = [req EXCEPT ![r].pc = "answered", ![r].status = status, ![r].verdicts = verdicts]
    BY <1>3
  <2>2. /\ req[r].op = "identify" => verdicts # << >>
        /\ \A k \in DOMAIN verdicts : verdicts[k].decision # "known"
    BY DEF Unknown
  <2> HIDE DEF status, verdicts
  <2>3. Wrote(r, "answered", req[r].id, req[r].mat, verdicts, req[r].torn, status)
    BY <2>1, Writes DEF SInv, IInv, Shaped
  <2>4. /\ \A q \in Requests \ {r} : req'[q] = req[q]
        /\ req'[r].op = req[r].op /\ req'[r].inv = req[r].inv /\ req'[r].clip = req[r].clip
        /\ req'[r].torn = req[r].torn /\ req'[r].verdicts = verdicts /\ req'[r].pc = "answered"
    BY <2>3 DEF Wrote, Edits
  <2>5. Named(r)' = {}
    BY <2>2, <2>4 DEF Named
  <2> QED  BY <1>1, <2>2, <2>4, <2>5 DEF Quiet
<1> QED  BY <1>2, <1>3 DEF Embed

LEMMA InsertQuiet ==
  ASSUME SInv, NEW r \in Requests, Insert(r)
  PROVE  /\ Quiet(r) /\ req[r].op \in Embeds
         /\ IF fk /\ req[r].id \notin profiles
            THEN req'[r].pc = "answered" /\ UNCHANGED <<rows, past>>
            ELSE /\ req'[r].pc = "ids" /\ rows' = rows \cup {Row(r)}
                 /\ past' = [past EXCEPT !.enrolled = @ \cup {<<Row(r).id, Row(r).voice>>}]
<1>1. req[r].pc = "insert" /\ Proper(req[r])
  BY DEF Insert, SInv
<1>2. req[r].op \in Embeds /\ req[r].op # "identify"
  BY <1>1 DEF Proper, Embeds
<1>3. CASE fk /\ req[r].id \notin profiles
  <2>1. Answer(r, 500) /\ UNCHANGED <<rows, past>>
    BY <1>3 DEF Insert, Refused
  <2> QED  BY <1>1, <1>2, <1>3, <2>1, AnswerQuiet
<1>4. CASE ~(fk /\ req[r].id \notin profiles)
  <2>1. /\ Goto(r, "ids") /\ rows' = rows \cup {Row(r)}
        /\ past' = [past EXCEPT !.enrolled = @ \cup {<<Row(r).id, Row(r).voice>>}]
    BY <1>4 DEF Insert
  <2> QED  BY <1>1, <1>2, <1>4, <2>1, GotoQuiet
<1> QED  BY <1>3, <1>4

LEMMA DeleteQuiet ==
  ASSUME SInv, NEW r \in Requests, DeleteSpeaker(r)
  PROVE  Quiet(r) /\ req[r].op = "delete" /\ req[r].pc = "arrived" /\ req'[r].pc = "ids"
<1>1. req[r].op = "delete" /\ req[r].pc = "arrived"
  BY DEF DeleteSpeaker, At
<1> DEFINE status == IF req[r].id \in profiles THEN 200 ELSE 404
<1>2. req' = [req EXCEPT ![r].pc = "ids", ![r].status = status]
  BY DEF DeleteSpeaker
<1> HIDE DEF status
<1>3. Wrote(r, "ids", req[r].id, req[r].mat, req[r].verdicts, req[r].torn, status)
  BY <1>2, Writes DEF SInv, IInv, Shaped
<1> QED  BY <1>1, <1>3, WroteQuiet

\* The other endpoints answer, or go on to their second write.
LEMMA OthersQuiet ==
  ASSUME SInv, NEW r \in Requests,
         \/ TouchInvite(r) \/ RevokeInvite(r) \/ CreateSpeaker(r) \/ SetConsent(r)
         \/ FindSpeaker(r) \/ AddInvite(r)
  PROVE  /\ Quiet(r) /\ req'[r].pc \in {"answered", "write"}
         /\ UNCHANGED <<rows, mirror>> /\ past'.enrolled = past.enrolled
         /\ past'.uncounted = past.uncounted
         /\ req[r].pc \in {"touch", "arrived", "write"}
         /\ IF req[r].pc = "touch" THEN TouchInvite(r) /\ req[r].op = "invite_sample"
            ELSE req[r].op # "invite_sample" /\ ~TouchInvite(r)
<1>1. Proper(req[r])
  BY DEF SInv
<1>2. /\ (\E status : Answer(r, status)) \/ Goto(r, "write")
      /\ UNCHANGED <<rows, mirror>>
      /\ req[r].pc \in {"touch", "arrived", "write"}
  BY DEF TouchInvite, RevokeInvite, CreateSpeaker, SetConsent, FindSpeaker, AddInvite, Refused, At
<1>3. past'.enrolled = past.enrolled /\ past'.uncounted = past.uncounted
  BY DEF TouchInvite, RevokeInvite, CreateSpeaker, SetConsent, FindSpeaker, AddInvite,
         SInv, IInv, Shaped
<1>4. /\ req[r].op \in {"invite_sample", "revoke", "create", "consent", "invite"}
      /\ IF req[r].pc = "touch" THEN TouchInvite(r) /\ req[r].op = "invite_sample"
         ELSE req[r].op # "invite_sample" /\ ~TouchInvite(r)
  BY <1>1 DEF TouchInvite, RevokeInvite, CreateSpeaker, SetConsent, FindSpeaker, AddInvite, At, Proper
<1>5. Quiet(r) /\ req'[r].pc \in {"answered", "write"}
  BY <1>2, <1>4, AnswerQuiet, GotoQuiet
<1> QED  BY <1>2, <1>3, <1>4, <1>5

\* Nothing that was enrolled, asked or torn is undone.
Grows ==
  /\ arrived \in Nat /\ arrived' \in Nat /\ arrived <= arrived'
  /\ past.enrolled \subseteq past'.enrolled
  /\ \A r \in Requests : r <= arrived =>
       /\ req'[r].op = req[r].op /\ req'[r].clip = req[r].clip
       /\ req[r].torn => req'[r].torn

LEMMA FitsMore ==
  ASSUME NEW ids, NEW mat, NEW P, NEW Q, P \subseteq Q, Fits(ids, mat, P)
  PROVE  Fits(ids, mat, Q)
BY DEF Fits

\* The table, read in order, fits; and a row added behind changes no fit.
LEMMA TableFits ==
  ASSUME SInv, Enrolled
  PROVE  Fits(IdsOf(rows), MatOf(rows), past.enrolled)
<1>1. Keyed(rows) /\ rows \subseteq Embedding
  BY DEF SInv, TablesOK
<1> QED  BY <1>1, ReloadRead DEF Fits, Enrolled

LEMMA AddedFits ==
  ASSUME NEW R, NEW e \in R, Keyed(R), R \subseteq Embedding, \A f \in R \ {e} : f.row < e.row,
         NEW mat \in Seq(Voices), NEW P, Fits(IdsOf(R \ {e}), mat, P)
  PROVE  Fits(IdsOf(R), mat, P)
<1> DEFINE T == R \ {e}
           c == Cardinality(T)
<1>1. Keyed(T) /\ T \subseteq Embedding /\ e \notin T /\ e.row \in Nat /\ T \cup {e} = R
  <2>1. IsFiniteSet(T)
    BY FS_Subset DEF Keyed
  <2> QED  BY <2>1 DEF Keyed
<1>2. \A f \in T : f.row < e.row
  OBVIOUS
<1> HIDE DEF T
<1>3. /\ Cardinality(T \cup {e}) = c + 1
      /\ \A k \in 1..c : InOrder(T \cup {e})[k] = InOrder(T)[k]
  BY <1>1, <1>2, ReadLast, ZenonT(40) DEF c
<1>4. /\ Cardinality(R) = c + 1
      /\ \A k \in 1..c : InOrder(R)[k] = InOrder(T)[k]
  BY <1>1, <1>3
<1>5. /\ Len(IdsOf(T)) = c /\ c \in Nat
      /\ \A k \in 1..c : IdsOf(T)[k] = InOrder(T)[k].id
  BY <1>1, ReloadRead DEF c
<1>6. /\ Len(IdsOf(R)) = c + 1
      /\ \A k \in 1..c : IdsOf(R)[k] = InOrder(R)[k].id
  <2>1. /\ Len(IdsOf(R)) = Cardinality(R)
        /\ \A k \in 1..Cardinality(R) : IdsOf(R)[k] = InOrder(R)[k].id
    BY ReloadRead
  <2> QED  BY <1>4, <1>5, <2>1
<1>7. Len(mat) \in Nat /\ Len(mat) <= c /\ \A k \in 1..Len(mat) : <<IdsOf(T)[k], mat[k]>> \in P
  <2>1. Fits(IdsOf(T), mat, P)
    BY DEF T
  <2>2. Len(mat) \in Nat
    OBVIOUS
  <2> HIDE DEF c
  <2> QED  BY <1>5, <2>1, <2>2 DEF Fits
<1>8. \A k \in 1..Len(mat) : IdsOf(R)[k] = IdsOf(T)[k]
  <2> HIDE DEF c
  <2> TAKE k \in 1..Len(mat)
  <2>1. k \in 1..c
    BY <1>5, <1>7
  <2> QED  BY <1>4, <1>5, <1>6, <2>1
<1> HIDE DEF c
<1> QED  BY <1>5, <1>6, <1>7, <1>8 DEF Fits

LEMMA QuietGrows ==
  ASSUME SInv, NEW r \in Requests, Quiet(r), arrived' = arrived,
         past.enrolled \subseteq past'.enrolled
  PROVE  Grows
BY DEF Grows, Quiet, SInv, CountersOK, Requests

LEMMA QuietVoices ==
  ASSUME VInv, SInv', NEW r \in Requests, Quiet(r), mirror' = mirror,
         past.enrolled \subseteq past'.enrolled, Enrolled', Adding'
  PROVE  VInv'
<1>1. MirrorFits'
  <2> SUFFICES ASSUME ~Shifting' PROVE Fits(mirror.ids, mirror.mat, past'.enrolled)
    BY DEF MirrorFits
  <2>1. ~Shifting
    BY DEF Shifting, Quiet
  <2> QED  BY <2>1, FitsMore DEF VInv, MirrorFits
<1>2. ASSUME NEW q \in Requests PROVE Matched(q)'
  <2>1. Matched(q)
    BY DEF VInv
  <2>2. CASE q = r
    <3>1. /\ req'[r].op = "identify" /\ req'[r].pc = "answered" => req'[r].verdicts # << >>
          /\ req'[r].torn = req[r].torn /\ req'[r].pc # "zip" /\ Named(r)' \subseteq Named(r)
      BY DEF Quiet
    <3> QED  BY <2>1, <2>2, <3>1 DEF Matched
  <2>3. CASE q # r
    <3>1. req'[q] = req[q]
      BY <2>3 DEF Quiet
    <3>2. Named(q)' = Named(q)
      BY <3>1 DEF Named
    <3>3. ~req[q].torn /\ req[q].pc = "zip" => Fits(mirror.ids, req[q].mat, past'.enrolled)
      BY <2>1, FitsMore DEF Matched
    <3> QED  BY <2>1, <3>1, <3>2, <3>3 DEF Matched
  <2> QED  BY <2>2, <2>3
<1> QED  BY <1>1, <1>2 DEF VInv

\* Nobody else adds while the lock is free, or held by r.
LEMMA AddingStep ==
  ASSUME VInv, NEW r \in Requests, Quiet(r), UNCHANGED <<rows, mirror>>, req'[r].pc # "ids"
  PROVE  Adding'
<1>1. ASSUME NEW q \in Requests, req'[q].op \in Embeds, req'[q].pc = "ids"
      PROVE  \E e \in rows : LastAdded(e)
  <2>1. q # r /\ req'[q] = req[q]
    BY <1>1 DEF Quiet
  <2> QED  BY <1>1, <2>1 DEF VInv, Adding
<1>2. \A e : LastAdded(e)' <=> LastAdded(e)
  BY DEF LastAdded
<1> QED  BY <1>1, <1>2 DEF Adding

LEMMA ReadersVoices ==
  ASSUME VInv, SInv', NEW r \in Requests, Validate(r) \/ Embed(r)
  PROVE  VInv' /\ Grows
<1>1. UNCHANGED <<rows, mirror, past, arrived>>
  BY DEF Validate, Embed, tables
<1>2. Quiet(r) /\ req'[r].pc # "ids"
  BY ValidateQuiet, EmbedQuiet DEF VInv
<1>3. Enrolled' /\ Adding'
  BY <1>1, <1>2, AddingStep DEF VInv, Enrolled
<1> QED  BY <1>1, <1>2, <1>3, QuietVoices, QuietGrows DEF VInv

LEMMA OthersVoices ==
  ASSUME VInv, SInv', NEW r \in Requests,
         \/ TouchInvite(r) \/ RevokeInvite(r) \/ CreateSpeaker(r) \/ SetConsent(r)
         \/ FindSpeaker(r) \/ AddInvite(r)
  PROVE  VInv' /\ Grows
<1>1. /\ Quiet(r) /\ req'[r].pc \in {"answered", "write"} /\ UNCHANGED <<rows, mirror>>
      /\ past'.enrolled = past.enrolled
  BY OthersQuiet DEF VInv
<1>2. arrived' = arrived
  BY DEF TouchInvite, RevokeInvite, CreateSpeaker, SetConsent, FindSpeaker, AddInvite
<1>3. Enrolled' /\ Adding'
  BY <1>1, AddingStep DEF VInv, Enrolled
<1> QED  BY <1>1, <1>2, <1>3, QuietVoices, QuietGrows DEF VInv

\* A deletion takes rows away; what was enrolled stays remembered.
LEMMA DeleteVoices ==
  ASSUME VInv, SInv', NEW r \in Requests, DeleteSpeaker(r)
  PROVE  VInv' /\ Grows
<1>1. /\ UNCHANGED <<mirror, past, arrived>> /\ lock = Nobody
      /\ rows' = {e \in rows : e.id # req[r].id}
  BY DEF DeleteSpeaker, Takes
<1>2. Quiet(r) /\ req[r].op = "delete" /\ req[r].pc = "arrived"
  BY DeleteQuiet DEF VInv
<1>3. Adding'
  <2>1. \A q \in Requests : req[q].pc # "ids"
    BY <1>1 DEF VInv, SInv, IInv, LockHeld, Writing, Nobody, Requests
  <2>2. \A q \in Requests : req'[q].op \in Embeds => req'[q].pc # "ids"
    BY <1>2, <2>1 DEF Quiet, Embeds
  <2> QED  BY <2>2 DEF Adding
<1>4. Enrolled'
  BY <1>1 DEF VInv, Enrolled
<1> QED  BY <1>1, <1>2, <1>3, <1>4, QuietVoices, QuietGrows DEF VInv

LEMMA InsertVoices ==
  ASSUME VInv, SInv', NEW r \in Requests, Insert(r)
  PROVE  VInv' /\ Grows
<1>1. UNCHANGED <<mirror, arrived>> /\ lock = Nobody /\ req[r].pc = "insert"
  BY DEF Insert
<1>2. /\ Quiet(r) /\ req[r].op \in Embeds
      /\ IF fk /\ req[r].id \notin profiles
         THEN req'[r].pc = "answered" /\ UNCHANGED <<rows, past>>
         ELSE /\ req'[r].pc = "ids" /\ rows' = rows \cup {Row(r)}
              /\ past' = [past EXCEPT !.enrolled = @ \cup {<<Row(r).id, Row(r).voice>>}]
  BY InsertQuiet DEF VInv
<1>3. CASE fk /\ req[r].id \notin profiles
  <2>1. UNCHANGED <<rows, past>> /\ req'[r].pc # "ids"
    BY <1>2, <1>3
  <2>2. Enrolled' /\ Adding'
    BY <1>1, <1>2, <2>1, AddingStep DEF VInv, Enrolled
  <2> QED  BY <1>1, <1>2, <2>1, <2>2, QuietVoices, QuietGrows DEF VInv
<1>4. CASE ~(fk /\ req[r].id \notin profiles)
  <2>0. PICK e : e = Row(r)
    OBVIOUS
  <2>1. e \notin rows /\ \A f \in rows : f.row < e.row
    BY <1>1, <2>0, RowTyped DEF VInv
  <2>2. rows' = rows \cup {e} /\ req'[r].pc = "ids"
    BY <1>2, <1>4, <2>0
  <2>3. past'.enrolled = past.enrolled \cup {<<e.id, e.voice>>}
    BY <1>2, <1>4, <2>0 DEF VInv, SInv, IInv, Shaped
  <2>4. Enrolled'
    BY <2>2, <2>3 DEF VInv, Enrolled
  <2>5. mirror = [ids |-> IdsOf(rows), mat |-> MatOf(rows)]
    BY <1>1 DEF VInv, SInv, IInv, StoreSound, MirrorFresh
  <2>6. LastAdded(e)'
    <3>1. rows' \ {e} = rows
      BY <2>1, <2>2
    <3> QED  BY <1>1, <2>1, <2>5, <3>1 DEF LastAdded
  <2>7. Adding'
    BY <2>2, <2>6 DEF Adding
  <2> QED  BY <1>1, <1>2, <2>3, <2>4, <2>7, QuietVoices, QuietGrows DEF VInv
<1> QED  BY <1>3, <1>4

\* r, which alone holds the lock, fills one field of the mirror.
Refills(r) ==
  /\ UNCHANGED <<rows, past, arrived>> /\ Writing(r)
  /\ req'[r].op = req[r].op /\ req'[r].clip = req[r].clip /\ req'[r].verdicts = req[r].verdicts
  /\ req'[r].torn = req[r].torn /\ req'[r].pc \in {"mat", "touch", "answered"}
  /\ req[r].op \in Embeds \cup {"delete"}
  /\ TornBy(r, {"zip"})

LEMMA RefillsVoices ==
  ASSUME VInv, SInv', NEW r \in Requests, Refills(r), MirrorFits',
         req[r].op \in Embeds =>
           \A q \in Requests : Fits(mirror.ids, req[q].mat, past.enrolled)
                                 => Fits(mirror'.ids, req[q].mat, past.enrolled)
  PROVE  VInv' /\ Grows
<1>1. \A q \in Requests \ {r} : ~Writing(q)
  BY HolderAlone DEF VInv, SInv, IInv, Refills
<1>2. ASSUME NEW q \in Requests \ {r}
      PROVE  /\ req'[q].op = req[q].op /\ req'[q].pc = req[q].pc /\ req'[q].clip = req[q].clip
             /\ req'[q].verdicts = req[q].verdicts /\ req'[q].mat = req[q].mat
             /\ req[q].torn => req'[q].torn
             /\ req[r].op = "delete" /\ req[q].pc = "zip" => req'[q].torn
  BY DEF Refills, TornBy, Torn, Edits
<1>3. \A q \in Requests : Named(q)' = Named(q)
  <2> TAKE q \in Requests
  <2>1. req'[q].verdicts = req[q].verdicts /\ req'[q].clip = req[q].clip
    BY <1>2 DEF Refills
  <2> QED  BY <2>1 DEF Named
<1>4. Adding'
  BY <1>1, <1>2 DEF Refills, Adding, Writing
<1>5. ASSUME NEW q \in Requests PROVE Matched(q)'
  <2>1. Matched(q)
    BY DEF VInv
  <2>2. CASE q = r
    <3>1. /\ req'[r].pc # "zip" /\ req'[r].op # "identify" /\ req'[r].torn = req[r].torn
          /\ UNCHANGED past
      BY DEF Refills, Embeds
    <3> QED  BY <1>3, <2>1, <2>2, <3>1 DEF Matched
  <2>3. CASE q # r
    <3>1. UNCHANGED past
      BY DEF Refills
    <3>2. ASSUME ~req'[q].torn, req'[q].pc = "zip"
          PROVE  Fits(mirror'.ids, req'[q].mat, past.enrolled)
      <4>1. req[r].op \in Embeds /\ ~req[q].torn /\ req[q].pc = "zip" /\ req'[q].mat = req[q].mat
        BY <1>2, <2>3, <3>2 DEF Refills
      <4>2. Fits(mirror.ids, req[q].mat, past.enrolled)
        BY <2>1, <4>1 DEF Matched
      <4> QED  BY <4>1, <4>2
    <3> QED  BY <1>2, <1>3, <2>1, <2>3, <3>1, <3>2 DEF Matched
  <2> QED  BY <2>2, <2>3
<1>6. Enrolled'
  BY DEF VInv, Enrolled, Refills
<1>7. Grows
  BY <1>2 DEF Grows, Refills, VInv, SInv, CountersOK, Requests
<1> QED  BY <1>4, <1>5, <1>6, <1>7 DEF VInv

LEMMA ReloadIdsVoices ==
  ASSUME VInv, SInv', NEW r \in Requests, ReloadIds(r)
  PROVE  VInv' /\ Grows
<1>1. /\ UNCHANGED <<rows, past, arrived>> /\ req[r].pc = "ids"
      /\ mirror' = [mirror EXCEPT !.ids = IdsOf(rows)]
      /\ req' = [Tears(r, {"zip"}) EXCEPT ![r].pc = "mat"]
  BY DEF ReloadIds, tables
<1>2. Reloads(r, {"zip"}, "mat", req[r].status)
  BY <1>1, ReloadWrites DEF VInv, SInv, IInv, Shaped
<1>3. Refills(r) /\ req'[r].pc = "mat"
  <2>1. req[r].op \in Embeds \cup {"delete"}
    BY <1>1 DEF VInv, SInv, Proper
  <2> QED  BY <1>1, <1>2, <2>1 DEF Refills, Reloads, Edits, Writing
<1>4. mirror'.ids = IdsOf(rows) /\ mirror'.mat = mirror.mat
  BY <1>1 DEF VInv, SInv, IInv, Shaped
<1>5. ASSUME req[r].op \in Embeds, NEW mat \in Seq(Voices), Fits(mirror.ids, mat, past.enrolled)
      PROVE  Fits(mirror'.ids, mat, past.enrolled)
  <2>1. PICK e \in rows : LastAdded(e)
    BY <1>1, <1>5 DEF VInv, Adding
  <2>2. Fits(IdsOf(rows \ {e}), mat, past.enrolled)
    BY <1>5, <2>1 DEF LastAdded
  <2>3. Fits(IdsOf(rows), mat, past.enrolled)
    BY <2>1, <2>2, AddedFits DEF LastAdded, VInv, SInv, TablesOK
  <2> QED  BY <1>4, <2>3
<1>6. MirrorFits'
  <2>1. CASE req[r].op = "delete"
    BY <1>3, <2>1 DEF MirrorFits, Shifting, Refills
  <2>2. CASE req[r].op \in Embeds
    <3>1. ~Shifting
      <4>1. \A q \in Requests \ {r} : ~Writing(q)
        BY <1>3, HolderAlone DEF VInv, SInv, IInv, Refills
      <4> QED  BY <2>2, <4>1 DEF Shifting, Writing, Embeds
    <3>2. mirror.mat \in Seq(Voices) /\ Fits(mirror.ids, mirror.mat, past.enrolled)
      BY <3>1 DEF VInv, SInv, TablesOK, MirrorFits
    <3>3. Fits(mirror'.ids, mirror'.mat, past.enrolled)
      BY <1>4, <1>5, <2>2, <3>2
    <3> QED  BY <1>1, <3>3 DEF MirrorFits
  <2> QED  BY <1>3, <2>1, <2>2 DEF Refills
<1>7. \A q \in Requests : req[q].mat \in Seq(Voices)
  BY DEF VInv, SInv, Proper, FieldsTyped
<1> QED  BY <1>3, <1>5, <1>6, <1>7, RefillsVoices

LEMMA ReloadMatVoices ==
  ASSUME VInv, SInv', NEW r \in Requests, ReloadMat(r)
  PROVE  VInv' /\ Grows
<1>1. /\ UNCHANGED <<rows, past, arrived>> /\ req[r].pc = "mat"
      /\ mirror' = [mirror EXCEPT !.mat = MatOf(rows)]
  BY DEF ReloadMat, tables
<1>2. req[r].op \in Embeds \cup {"delete"}
  BY <1>1 DEF VInv, SInv, Proper
<1>3. Refills(r)
  <2>1. CASE req[r].op = "invite_sample"
    <3>1. req' = [req EXCEPT ![r].pc = "touch"]
      BY <2>1 DEF ReloadMat
    <3>2. Wrote(r, "touch", req[r].id, req[r].mat, req[r].verdicts, req[r].torn, req[r].status)
      BY <3>1, Writes DEF VInv, SInv, IInv, Shaped
    <3>3. TornBy(r, {"zip"})
      BY <2>1, <3>2 DEF TornBy, Wrote
    <3> QED  BY <1>1, <1>2, <3>2, <3>3 DEF Refills, Wrote, Edits, Writing
  <2>2. CASE req[r].op # "invite_sample"
    <3> DEFINE status == IF req[r].status = 0 THEN 200 ELSE req[r].status
    <3>1. Tears(r, {"zip"})[r].status = req[r].status
      BY <1>1, TearsProperties DEF VInv, SInv, IInv, Shaped
    <3>2. req' = [Tears(r, {"zip"}) EXCEPT ![r].pc = "answered", ![r].status = status]
      BY <2>2, <3>1 DEF ReloadMat
    <3> HIDE DEF status
    <3>3. Reloads(r, {"zip"}, "answered", status)
      BY <1>1, <3>2, ReloadWrites DEF VInv, SInv, IInv, Shaped
    <3> QED  BY <1>1, <1>2, <3>3 DEF Refills, Reloads, Edits, Writing
  <2> QED  BY <2>1, <2>2
<1>4. mirror'.ids = IdsOf(rows) /\ mirror'.mat = MatOf(rows) /\ mirror'.ids = mirror.ids
  BY <1>1 DEF VInv, SInv, IInv, Shaped, HalfLoaded
<1>5. Fits(mirror'.ids, mirror'.mat, past.enrolled)
  BY <1>4, TableFits DEF VInv
<1>6. MirrorFits'
  BY <1>1, <1>5 DEF MirrorFits
<1> QED  BY <1>3, <1>4, <1>6, RefillsVoices

\* A query that has read both fields between deletions names whom it heard.
LEMMA QueryMatVoices ==
  ASSUME VInv, SInv', NEW r \in Requests, QueryMat(r)
  PROVE  VInv' /\ Grows
<1> DEFINE q == req[r]
           mat  == IF mirror.ids = << >> THEN << >> ELSE mirror.mat
           torn == q.torn \/ Shifting
<1>1. UNCHANGED <<rows, mirror, past, arrived>> /\ q.pc = "match"
  BY DEF QueryMat, tables
<1>2. req' = [req EXCEPT ![r].pc = "zip", ![r].mat = mat, ![r].torn = torn]
  BY DEF QueryMat, Shifting
<1>3. ~torn => ~q.torn /\ Fits(mirror.ids, mat, past.enrolled)
  <2> SUFFICES ASSUME ~torn PROVE ~q.torn /\ Fits(mirror.ids, mat, past.enrolled)
    OBVIOUS
  <2>1. Fits(mirror.ids, mirror.mat, past.enrolled)
    BY DEF VInv, MirrorFits
  <2> QED  BY <2>1 DEF Fits
<1>4. q.torn => torn
  OBVIOUS
<1> HIDE DEF q, mat, torn
<1>5. Wrote(r, "zip", req[r].id, mat, req[r].verdicts, torn, req[r].status)
  BY <1>2, Writes DEF VInv, SInv, IInv, Shaped
<1>6. /\ \A p \in Requests \ {r} : req'[p] = req[p]
      /\ req'[r].op = req[r].op /\ req'[r].clip = req[r].clip /\ req'[r].verdicts = req[r].verdicts
      /\ req'[r].pc = "zip" /\ req'[r].mat = mat
  BY <1>5 DEF Wrote, Edits
<1>7. req'[r].torn = torn
  BY <1>5 DEF Wrote, Edits
<1>8. MirrorFits' /\ Adding' /\ Enrolled'
  <2>1. \A e \in rows : LastAdded(e)' <=> LastAdded(e)
    BY <1>1 DEF LastAdded
  <2>2. Shifting' <=> Shifting
    BY <1>1, <1>6 DEF Shifting, q
  <2>3. Adding'
    BY <1>1, <1>6, <2>1 DEF VInv, Adding
  <2> QED  BY <1>1, <2>2, <2>3 DEF VInv, MirrorFits, Enrolled
<1>9. ASSUME NEW p \in Requests PROVE Matched(p)'
  <2>1. Matched(p) /\ Named(p)' = Named(p)
    BY <1>6 DEF VInv, Named
  <2>2. CASE p = r
    <3>1. ~req'[r].torn => ~req[r].torn /\ Fits(mirror.ids, mat, past.enrolled)
      BY <1>3, <1>7 DEF q
    <3> QED  BY <1>1, <1>6, <2>1, <2>2, <3>1 DEF Matched
  <2>3. CASE p # r
    BY <1>1, <1>6, <2>1, <2>3 DEF Matched
  <2> QED  BY <2>2, <2>3
<1>10. Grows
  <2>1. req[r].torn => req'[r].torn
    BY <1>4, <1>7 DEF q
  <2> QED  BY <1>1, <1>6, <2>1 DEF Grows, VInv, SInv, CountersOK, Requests
<1> QED  BY <1>8, <1>9, <1>10 DEF VInv

LEMMA VerdictNear ==
  ASSUME NEW r \in Requests, NEW near, Verdict(r, near).decision = "known"
  PROVE  Verdict(r, near).id \in near
<1>1. Decide(near).decision = "known" => Decide(near).id \in near
  <2>1. CASE near = {}
    BY <2>1 DEF Decide, Unknown
  <2>2. CASE near # {} /\ \E a, b \in near : a # b
    BY <2>2 DEF Decide, Ambiguous
  <2>3. CASE near # {} /\ ~(\E a, b \in near : a # b)
    <3>1. Decide(near) = Known(CHOOSE id \in near : TRUE)
      BY <2>3 DEF Decide
    <3>2. (CHOOSE id \in near : TRUE) \in near
      BY <2>3
    <3> QED  BY <3>1, <3>2 DEF Known
  <2> QED  BY <2>1, <2>2, <2>3
<1> QED  BY <1>1 DEF Verdict, Unknown, Known

LEMMA QueryZipVoices ==
  ASSUME VInv, SInv', NEW r \in Requests, QueryZip(r)
  PROVE  VInv' /\ Grows
<1> DEFINE q == req[r]
           k == Len(q.verdicts) + 1
           near == Near(mirror.ids, q.mat, Heard(r, k))
           last == q.op # "diarize" \/ k = Len(q.clip)
<1>1. UNCHANGED <<rows, mirror, past, arrived>> /\ q.pc = "zip" /\ Proper(q)
  BY DEF QueryZip, tables, VInv, SInv
<1>2. PICK v \in {Verdict(r, near)} \cup (IF q.op = "diarize" THEN {Unknown} ELSE {}) :
        req' = [req EXCEPT ![r].verdicts = Append(@, v), ![r].mat = << >>,
                           ![r].pc = IF last THEN "answered" ELSE "match",
                           ![r].status = IF last THEN 200 ELSE 0]
  BY DEF QueryZip
<1>3. v.decision = "known" /\ ~q.torn => <<v.id, q.clip[k]>> \in past.enrolled
  <2> SUFFICES ASSUME v.decision = "known", ~q.torn PROVE <<v.id, q.clip[k]>> \in past.enrolled
    OBVIOUS
  <2>1. v = Verdict(r, near)
    BY <1>2 DEF Unknown
  <2>2. v.id \in near
    BY <2>1, VerdictNear
  <2>3. PICK j \in DOMAIN mirror.ids \cap DOMAIN q.mat : q.mat[j] = q.clip[k] /\ v.id = mirror.ids[j]
    BY <2>2 DEF Near, Heard
  <2>4. Fits(mirror.ids, q.mat, past.enrolled)
    BY <1>1 DEF VInv, Matched
  <2>5. j \in 1..Len(q.mat)
    <3>1. q.mat \in Seq(Voices)
      BY <1>1 DEF Proper, FieldsTyped
    <3> QED  BY <2>3, <3>1
  <2> QED  BY <2>3, <2>4, <2>5 DEF Fits
<1> DEFINE verdicts == Append(q.verdicts, v)
           pc == IF last THEN "answered" ELSE "match"
           status == IF last THEN 200 ELSE 0
<1>4. /\ Len(q.verdicts) \in Nat /\ DOMAIN verdicts = 1..k /\ verdicts[k] = v
      /\ DOMAIN q.verdicts = 1..Len(q.verdicts)
      /\ \A m \in 1..Len(q.verdicts) : verdicts[m] = q.verdicts[m]
      /\ verdicts # << >>
  BY <1>1 DEF Proper, FieldsTyped
<1>5. pc \in {"answered", "match"}
  OBVIOUS
<1>6. req' = [req EXCEPT ![r].verdicts = verdicts, ![r].mat = << >>, ![r].pc = pc,
                         ![r].status = status]
  BY <1>2
<1> HIDE DEF verdicts, pc, status
<1>7. Wrote(r, pc, req[r].id, << >>, verdicts, req[r].torn, status)
  BY <1>6, Writes DEF VInv, SInv, IInv, Shaped
<1>8. /\ \A p \in Requests \ {r} : req'[p] = req[p]
      /\ req'[r].op = q.op /\ req'[r].clip = q.clip /\ req'[r].verdicts = verdicts
      /\ req'[r].torn = q.torn /\ req'[r].pc \in {"answered", "match"}
  BY <1>5, <1>7 DEF Wrote, Edits
<1>9. ~q.torn => Named(r)' \subseteq past.enrolled
  <2> SUFFICES ASSUME ~q.torn, NEW m \in DOMAIN verdicts, verdicts[m].decision = "known"
               PROVE  <<verdicts[m].id, q.clip[m]>> \in past.enrolled
    BY <1>8 DEF Named
  <2>1. CASE m = k
    BY <1>3, <1>4, <2>1
  <2>2. CASE m # k
    <3>1. m \in 1..Len(q.verdicts) /\ verdicts[m] = q.verdicts[m]
      BY <1>4, <2>2, SMTT(30)
    <3>2. Named(r) \subseteq past.enrolled
      BY DEF VInv, Matched
    <3> QED  BY <1>4, <3>1, <3>2 DEF Named
  <2> QED  BY <2>1, <2>2
<1> HIDE DEF q, k, near, last
<1>10. MirrorFits' /\ Adding' /\ Enrolled'
  <2>1. \A e \in rows : LastAdded(e)' <=> LastAdded(e)
    BY <1>1 DEF LastAdded
  <2>2. Shifting' <=> Shifting
    BY <1>1, <1>8 DEF Shifting, q
  <2>3. Adding'
    BY <1>1, <1>8, <2>1 DEF VInv, Adding
  <2> QED  BY <1>1, <2>2, <2>3 DEF VInv, MirrorFits, Enrolled
<1>11. ASSUME NEW p \in Requests PROVE Matched(p)'
  <2>1. Matched(p)
    BY DEF VInv
  <2>2. CASE p = r
    BY <1>1, <1>4, <1>8, <1>9, <2>1, <2>2 DEF Matched
  <2>3. CASE p # r
    <3>1. req'[p] = req[p] /\ Named(p)' = Named(p)
      BY <1>8, <2>3 DEF Named
    <3> QED  BY <1>1, <2>1, <3>1 DEF Matched
  <2> QED  BY <2>2, <2>3
<1>12. Grows
  BY <1>1, <1>8 DEF Grows, VInv, SInv, CountersOK, Requests, q
<1> QED  BY <1>10, <1>11, <1>12 DEF VInv

\* A request that arrives has matched nothing.
LEMMA ArriveVoices ==
  ASSUME VInv, NEW op, NEW id, NEW inv, NEW clip, Arrive(op, id, inv, clip),
         Asks(op, id, inv, clip)
  PROVE  /\ VInv' /\ Grows
         /\ arrived + 1 \in Requests /\ arrived' = arrived + 1
         /\ req'[arrived + 1].op = op /\ req'[arrived + 1].clip = clip
<1> DEFINE r == arrived + 1
           n == New(op, id, inv, clip)
<1>1. Arrived(r, n) /\ SInv'
  BY ArriveIs, ArriveTyped DEF VInv
<1>2. IsNew(n, op, id, inv, clip)
  BY NewFields
<1> HIDE DEF n
<1>3. n.pc \in {"read", "arrived"} /\ n.verdicts = << >> /\ n.op = op /\ n.clip = clip
  BY <1>2 DEF IsNew
<1>4. /\ r \in Requests /\ arrived' = r /\ UNCHANGED <<rows, mirror, past>>
      /\ req[r].pc = "free" /\ req'[r] = n /\ \A q \in Requests \ {r} : req'[q] = req[q]
  BY <1>1 DEF Arrived, tables
<1>5. arrived \in Nat
  BY DEF VInv, SInv, CountersOK
<1>6. Enrolled' /\ MirrorFits' /\ Adding'
  <2>1. \A e \in rows : LastAdded(e)' <=> LastAdded(e)
    BY <1>4 DEF LastAdded
  <2>2. Shifting' <=> Shifting
    BY <1>3, <1>4 DEF Shifting
  <2>3. Adding'
    BY <1>3, <1>4, <2>1 DEF VInv, Adding
  <2> QED  BY <1>4, <2>2, <2>3 DEF VInv, MirrorFits, Enrolled
<1>7. ASSUME NEW q \in Requests PROVE Matched(q)'
  <2>1. CASE q = r
    <3>1. Named(q)' = {}
      BY <1>3, <1>4, <2>1 DEF Named
    <3> QED  BY <1>3, <1>4, <2>1, <3>1 DEF Matched
  <2>2. CASE q # r
    <3>1. req'[q] = req[q] /\ Named(q)' = Named(q)
      BY <1>4, <2>2 DEF Named
    <3> QED  BY <1>4, <3>1 DEF VInv, Matched
  <2> QED  BY <2>1, <2>2
<1>8. Grows
  BY <1>4, <1>5 DEF Grows
<1> QED  BY <1>1, <1>3, <1>4, <1>6, <1>7, <1>8 DEF VInv

LEMMA RestartVoices ==
  ASSUME VInv, Restart
  PROVE  VInv' /\ Grows
<1>1. /\ UNCHANGED <<tables, load, arrived>> /\ mirror' = Loaded
      /\ \A r \in Requests : IF Pending(r) THEN Lost(req'[r], req[r]) ELSE req'[r] = req[r]
      /\ SInv'
  BY RestartIs, RestartTyped DEF VInv
<1>2. past'.enrolled = past.enrolled
  <2> DEFINE uncounted == [i \in Invites |->
               past.uncounted[i] + IF Live(i) THEN Cardinality(Uncounted(i)) ELSE 0]
  <2>1. past' = [past EXCEPT !.uncounted = uncounted]
    BY DEF Restart
  <2> HIDE DEF uncounted
  <2> QED  BY <2>1 DEF VInv, SInv, IInv, Shaped
<1>3. ASSUME NEW r \in Requests
      PROVE  /\ req'[r].op = req[r].op /\ req'[r].clip = req[r].clip
             /\ req'[r].verdicts = req[r].verdicts /\ req'[r].torn = req[r].torn
             /\ req'[r].pc \in {"free", "answered", "lost"}
             /\ req'[r].pc = "answered" => req[r].pc = "answered"
  BY <1>1 DEF Lost, Edits, Pending
<1>4. Enrolled' /\ Adding'
  BY <1>1, <1>2, <1>3 DEF VInv, Enrolled, Adding, tables
<1>5. MirrorFits'
  <2>1. Fits(mirror'.ids, mirror'.mat, past.enrolled)
    BY <1>1, TableFits DEF VInv, Loaded
  <2> QED  BY <1>2, <2>1 DEF MirrorFits
<1>6. ASSUME NEW r \in Requests PROVE Matched(r)'
  <2>1. Matched(r) /\ Named(r)' = Named(r)
    BY <1>3 DEF VInv, Named
  <2> QED  BY <1>2, <1>3, <2>1 DEF Matched
<1>7. Grows
  BY <1>1, <1>2, <1>3 DEF Grows, VInv, SInv, CountersOK
<1> QED  BY <1>1, <1>4, <1>5, <1>6, <1>7 DEF VInv

LEMMA StillVoices ==
  ASSUME VInv, SInv', UNCHANGED <<rows, mirror, req, arrived, past>>
  PROVE  VInv' /\ Grows
<1>1. Enrolled' /\ MirrorFits'
  BY DEF VInv, Enrolled, MirrorFits, Shifting
<1>2. Adding'
  BY DEF VInv, Adding, LastAdded
<1>3. \A r \in Requests : Matched(r)'
  BY DEF VInv, Matched, Named
<1>4. Grows
  BY DEF Grows, VInv, SInv, CountersOK
<1> QED  BY <1>1, <1>2, <1>3, <1>4 DEF VInv

LEMMA ServeVoices ==
  ASSUME VInv, NEW r \in Requests, Serve(r)
  PROVE  VInv' /\ Grows
<1>1. SInv'
  BY ServeTyped DEF VInv
<1> QED  BY <1>1, ReadersVoices, InsertVoices, ReloadIdsVoices, ReloadMatVoices, OthersVoices,
            DeleteVoices, QueryMatVoices, QueryZipVoices DEF Serve

LEMMA ServiceVoices ==
  ASSUME VInv, ServiceNext
  PROVE  VInv' /\ Grows
<1>1. ASSUME NEW op \in load.ops, Ask(op) PROVE VInv' /\ Grows
  BY <1>1, AskArrives, ArriveVoices
<1>2. ASSUME NEW i \in Invites, Expire(i) PROVE VInv' /\ Grows
  <2>1. SInv' /\ UNCHANGED <<rows, mirror, req, arrived, past>>
    BY <1>2, ExpireTyped DEF Expire, VInv
  <2> QED  BY <2>1, StillVoices
<1> QED  BY <1>1, <1>2, ServeVoices, RestartVoices DEF ServiceNext

LEMMA IdleVoices ==
  ASSUME VInv, UNCHANGED service
  PROVE  VInv' /\ Grows
<1>1. SInv' /\ UNCHANGED <<rows, mirror, req, arrived, past>>
  BY StaysTyped DEF VInv, service, tables
<1> QED  BY <1>1, StillVoices

LEMMA InitialVoices ==
  ASSUME NEW stored, StoredSound(stored), StoredTyped(stored), InitService(stored)
  PROVE  VInv
<1>1. SInv
  BY InitiallyTyped
<1>2. Enrolled
  BY DEF InitService, Enrolled
<1>3. MirrorFits
  <2>1. mirror.ids = IdsOf(rows) /\ mirror.mat = MatOf(rows)
    BY DEF InitService
  <2> QED  BY <1>1, <1>2, <2>1, TableFits DEF MirrorFits
<1>4. \A r \in Requests : req[r].pc = "free" /\ req[r].verdicts = << >>
  BY DEF InitService, NoRequest
<1>5. Adding /\ \A r \in Requests : Matched(r)
  BY <1>4 DEF Adding, Matched, Named
<1> QED  BY <1>1, <1>2, <1>3, <1>5 DEF VInv

-----------------------------------------------------------------------------
(* The session: steps keep turns, labels and corrections apart. *)

Stages == {"silent", "spoken", "posted", "transcribed", "completed", "dropped"}

RecordIs(n, stage, clip, item, completed, call, future, label) ==
  /\ n \in TurnRecord
  /\ n.stage = stage /\ n.clip = clip /\ n.item = item /\ n.completed = completed
  /\ n.call = call /\ n.future = future /\ n.label = label

LEMMA RecordEdits ==
  ASSUME NEW t \in TurnRecord, NEW stage \in Stages, NEW clip \in Clips \cup {<< >>},
         NEW item \in Nat, NEW call \in 0..MaxRequests, NEW label \in Label
  PROVE  /\ RecordIs([t EXCEPT !.stage = stage, !.clip = clip],
                  stage, clip, t.item, t.completed, t.call, t.future, t.label)
         /\ RecordIs([t EXCEPT !.stage = stage],
                  stage, t.clip, t.item, t.completed, t.call, t.future, t.label)
         /\ RecordIs([t EXCEPT !.stage = stage, !.label = label],
                  stage, t.clip, t.item, t.completed, t.call, t.future, label)
         /\ RecordIs([t EXCEPT !.call = call],
                  t.stage, t.clip, t.item, t.completed, call, t.future, t.label)
         /\ RecordIs([t EXCEPT !.future = label],
                  t.stage, t.clip, t.item, t.completed, t.call, label, t.label)
         /\ RecordIs([t EXCEPT !.item = item],
                  t.stage, t.clip, item, t.completed, t.call, t.future, t.label)
         /\ RecordIs([t EXCEPT !.stage = stage, !.completed = item],
                  stage, t.clip, t.item, item, t.call, t.future, t.label)
<1>1. RecordIs([t EXCEPT !.stage = stage, !.clip = clip],
              stage, clip, t.item, t.completed, t.call, t.future, t.label)
  <2> DEFINE n == [t EXCEPT !.stage = stage, !.clip = clip]
  <2>1. n \in TurnRecord
    BY DEF TurnRecord, Stages
  <2> QED  BY <2>1 DEF RecordIs, TurnRecord
<1>2. RecordIs([t EXCEPT !.stage = stage],
              stage, t.clip, t.item, t.completed, t.call, t.future, t.label)
  <2> DEFINE n == [t EXCEPT !.stage = stage]
  <2>1. n \in TurnRecord
    BY DEF TurnRecord, Stages
  <2> QED  BY <2>1 DEF RecordIs, TurnRecord
<1>3. RecordIs([t EXCEPT !.stage = stage, !.label = label],
              stage, t.clip, t.item, t.completed, t.call, t.future, label)
  <2> DEFINE n == [t EXCEPT !.stage = stage, !.label = label]
  <2>1. n \in TurnRecord
    BY DEF TurnRecord, Stages
  <2> QED  BY <2>1 DEF RecordIs, TurnRecord
<1>4. RecordIs([t EXCEPT !.call = call],
              t.stage, t.clip, t.item, t.completed, call, t.future, t.label)
  <2> DEFINE n == [t EXCEPT !.call = call]
  <2>1. n \in TurnRecord
    BY DEF TurnRecord, Stages
  <2> QED  BY <2>1 DEF RecordIs, TurnRecord
<1>5. RecordIs([t EXCEPT !.future = label],
              t.stage, t.clip, t.item, t.completed, t.call, label, t.label)
  <2> DEFINE n == [t EXCEPT !.future = label]
  <2>1. n \in TurnRecord
    BY DEF TurnRecord, Stages
  <2> QED  BY <2>1 DEF RecordIs, TurnRecord
<1>6. RecordIs([t EXCEPT !.item = item],
              t.stage, t.clip, item, t.completed, t.call, t.future, t.label)
  <2> DEFINE n == [t EXCEPT !.item = item]
  <2>1. n \in TurnRecord
    BY DEF TurnRecord, Stages
  <2> QED  BY <2>1 DEF RecordIs, TurnRecord
<1>7. RecordIs([t EXCEPT !.stage = stage, !.completed = item],
              stage, t.clip, t.item, item, t.call, t.future, t.label)
  <2> DEFINE n == [t EXCEPT !.stage = stage, !.completed = item]
  <2>1. n \in TurnRecord
    BY DEF TurnRecord, Stages
  <2> QED  BY <2>1 DEF RecordIs, TurnRecord
<1> QED  BY <1>1, <1>2, <1>3, <1>4, <1>5, <1>6, <1>7

\* A step writes these fields of u's record and no other record.
Records(u, stage, clip, item, completed, call, future, label) ==
  /\ turn' \in [Turns -> TurnRecord]
  /\ \A w \in Turns \ {u} : turn'[w] = turn[w]
  /\ RecordIs(turn'[u], stage, clip, item, completed, call, future, label)

LEMMA TurnWrites ==
  ASSUME turn \in [Turns -> TurnRecord], NEW u \in Turns, NEW stage \in Stages, NEW clip \in Clips \cup {<< >>},
         NEW item \in Nat, NEW call \in 0..MaxRequests, NEW label \in Label
  PROVE  LET t == turn[u] IN
         /\ turn' = [turn EXCEPT ![u].stage = stage, ![u].clip = clip]
              => Records(u, stage, clip, t.item, t.completed, t.call, t.future, t.label)
         /\ turn' = [turn EXCEPT ![u].stage = stage]
              => Records(u, stage, t.clip, t.item, t.completed, t.call, t.future, t.label)
         /\ turn' = [turn EXCEPT ![u].stage = stage, ![u].label = label]
              => Records(u, stage, t.clip, t.item, t.completed, t.call, t.future, label)
         /\ turn' = [turn EXCEPT ![u].call = call]
              => Records(u, t.stage, t.clip, t.item, t.completed, call, t.future, t.label)
         /\ turn' = [turn EXCEPT ![u].future = label]
              => Records(u, t.stage, t.clip, t.item, t.completed, t.call, label, t.label)
         /\ turn' = [turn EXCEPT ![u].item = item]
              => Records(u, t.stage, t.clip, item, t.completed, t.call, t.future, t.label)
         /\ turn' = [turn EXCEPT ![u].stage = stage, ![u].completed = item]
              => Records(u, stage, t.clip, t.item, item, t.call, t.future, t.label)
<1> DEFINE t == turn[u]
<1>1. t \in TurnRecord
  OBVIOUS
<1>2. ASSUME NEW n \in TurnRecord, turn' = [turn EXCEPT ![u] = n]
      PROVE  /\ turn' \in [Turns -> TurnRecord] /\ turn'[u] = n
             /\ \A w \in Turns \ {u} : turn'[w] = turn[w]
  BY <1>2
<1>3. turn' = [turn EXCEPT ![u].stage = stage, ![u].clip = clip]
        => Records(u, stage, clip, t.item, t.completed, t.call, t.future, t.label)
  <2> SUFFICES ASSUME turn' = [turn EXCEPT ![u].stage = stage, ![u].clip = clip]
               PROVE  Records(u, stage, clip, t.item, t.completed, t.call, t.future, t.label)
    OBVIOUS
  <2> DEFINE n == [t EXCEPT !.stage = stage, !.clip = clip]
  <2>1. turn' = [turn EXCEPT ![u] = n]
    OBVIOUS
  <2>2. RecordIs(n, stage, clip, t.item, t.completed, t.call, t.future, t.label)
    BY <1>1, RecordEdits
  <2> HIDE DEF n, t
  <2>3. n \in TurnRecord
    BY <2>2 DEF RecordIs
  <2>4. turn' \in [Turns -> TurnRecord] /\ turn'[u] = n /\ \A w \in Turns \ {u} : turn'[w] = turn[w]
    BY <1>2, <2>1, <2>3
  <2> QED  BY <2>2, <2>4 DEF Records
<1>4. turn' = [turn EXCEPT ![u].stage = stage]
        => Records(u, stage, t.clip, t.item, t.completed, t.call, t.future, t.label)
  <2> SUFFICES ASSUME turn' = [turn EXCEPT ![u].stage = stage]
               PROVE  Records(u, stage, t.clip, t.item, t.completed, t.call, t.future, t.label)
    OBVIOUS
  <2> DEFINE n == [t EXCEPT !.stage = stage]
  <2>1. turn' = [turn EXCEPT ![u] = n]
    BY SMTT(30)
  <2>2. RecordIs(n, stage, t.clip, t.item, t.completed, t.call, t.future, t.label)
    BY <1>1, RecordEdits
  <2> HIDE DEF n, t
  <2>3. n \in TurnRecord
    BY <2>2 DEF RecordIs
  <2>4. turn' \in [Turns -> TurnRecord] /\ turn'[u] = n /\ \A w \in Turns \ {u} : turn'[w] = turn[w]
    BY <1>2, <2>1, <2>3
  <2> QED  BY <2>2, <2>4 DEF Records
<1>5. turn' = [turn EXCEPT ![u].stage = stage, ![u].label = label]
        => Records(u, stage, t.clip, t.item, t.completed, t.call, t.future, label)
  <2> SUFFICES ASSUME turn' = [turn EXCEPT ![u].stage = stage, ![u].label = label]
               PROVE  Records(u, stage, t.clip, t.item, t.completed, t.call, t.future, label)
    OBVIOUS
  <2> DEFINE n == [t EXCEPT !.stage = stage, !.label = label]
  <2>1. turn' = [turn EXCEPT ![u] = n]
    OBVIOUS
  <2>2. RecordIs(n, stage, t.clip, t.item, t.completed, t.call, t.future, label)
    BY <1>1, RecordEdits
  <2> HIDE DEF n, t
  <2>3. n \in TurnRecord
    BY <2>2 DEF RecordIs
  <2>4. turn' \in [Turns -> TurnRecord] /\ turn'[u] = n /\ \A w \in Turns \ {u} : turn'[w] = turn[w]
    BY <1>2, <2>1, <2>3
  <2> QED  BY <2>2, <2>4 DEF Records
<1>6. turn' = [turn EXCEPT ![u].call = call]
        => Records(u, t.stage, t.clip, t.item, t.completed, call, t.future, t.label)
  <2> SUFFICES ASSUME turn' = [turn EXCEPT ![u].call = call]
               PROVE  Records(u, t.stage, t.clip, t.item, t.completed, call, t.future, t.label)
    OBVIOUS
  <2> DEFINE n == [t EXCEPT !.call = call]
  <2>1. turn' = [turn EXCEPT ![u] = n]
    BY SMTT(30)
  <2>2. RecordIs(n, t.stage, t.clip, t.item, t.completed, call, t.future, t.label)
    BY <1>1, RecordEdits
  <2> HIDE DEF n, t
  <2>3. n \in TurnRecord
    BY <2>2 DEF RecordIs
  <2>4. turn' \in [Turns -> TurnRecord] /\ turn'[u] = n /\ \A w \in Turns \ {u} : turn'[w] = turn[w]
    BY <1>2, <2>1, <2>3
  <2> QED  BY <2>2, <2>4 DEF Records
<1>7. turn' = [turn EXCEPT ![u].future = label]
        => Records(u, t.stage, t.clip, t.item, t.completed, t.call, label, t.label)
  <2> SUFFICES ASSUME turn' = [turn EXCEPT ![u].future = label]
               PROVE  Records(u, t.stage, t.clip, t.item, t.completed, t.call, label, t.label)
    OBVIOUS
  <2> DEFINE n == [t EXCEPT !.future = label]
  <2>1. turn' = [turn EXCEPT ![u] = n]
    BY SMTT(30)
  <2>2. RecordIs(n, t.stage, t.clip, t.item, t.completed, t.call, label, t.label)
    BY <1>1, RecordEdits
  <2> HIDE DEF n, t
  <2>3. n \in TurnRecord
    BY <2>2 DEF RecordIs
  <2>4. turn' \in [Turns -> TurnRecord] /\ turn'[u] = n /\ \A w \in Turns \ {u} : turn'[w] = turn[w]
    BY <1>2, <2>1, <2>3
  <2> QED  BY <2>2, <2>4 DEF Records
<1>8. turn' = [turn EXCEPT ![u].item = item]
        => Records(u, t.stage, t.clip, item, t.completed, t.call, t.future, t.label)
  <2> SUFFICES ASSUME turn' = [turn EXCEPT ![u].item = item]
               PROVE  Records(u, t.stage, t.clip, item, t.completed, t.call, t.future, t.label)
    OBVIOUS
  <2> DEFINE n == [t EXCEPT !.item = item]
  <2>1. turn' = [turn EXCEPT ![u] = n]
    BY SMTT(30)
  <2>2. RecordIs(n, t.stage, t.clip, item, t.completed, t.call, t.future, t.label)
    BY <1>1, RecordEdits
  <2> HIDE DEF n, t
  <2>3. n \in TurnRecord
    BY <2>2 DEF RecordIs
  <2>4. turn' \in [Turns -> TurnRecord] /\ turn'[u] = n /\ \A w \in Turns \ {u} : turn'[w] = turn[w]
    BY <1>2, <2>1, <2>3
  <2> QED  BY <2>2, <2>4 DEF Records
<1>9. turn' = [turn EXCEPT ![u].stage = stage, ![u].completed = item]
        => Records(u, stage, t.clip, t.item, item, t.call, t.future, t.label)
  <2> SUFFICES ASSUME turn' = [turn EXCEPT ![u].stage = stage, ![u].completed = item]
               PROVE  Records(u, stage, t.clip, t.item, item, t.call, t.future, t.label)
    OBVIOUS
  <2> DEFINE n == [t EXCEPT !.stage = stage, !.completed = item]
  <2>1. turn' = [turn EXCEPT ![u] = n]
    OBVIOUS
  <2>2. RecordIs(n, stage, t.clip, t.item, item, t.call, t.future, t.label)
    BY <1>1, RecordEdits
  <2> HIDE DEF n, t
  <2>3. n \in TurnRecord
    BY <2>2 DEF RecordIs
  <2>4. turn' \in [Turns -> TurnRecord] /\ turn'[u] = n /\ \A w \in Turns \ {u} : turn'[w] = turn[w]
    BY <1>2, <2>1, <2>3
  <2> QED  BY <2>2, <2>4 DEF Records
<1> QED  BY <1>3, <1>4, <1>5, <1>6, <1>7, <1>8, <1>9

\* Queues.
LEMMA SeqMore ==
  ASSUME NEW S, NEW T, S \subseteq T, NEW q \in Seq(S)
  PROVE  q \in Seq(T)
OBVIOUS

LEMMA Removed ==
  ASSUME NEW S, NEW q \in Seq(S), NEW j \in 1..Len(q)
  PROVE  RemoveAt(q, j) \in Seq(S)
<1>1. SubSeq(q, 1, j - 1) \in Seq(S) /\ SubSeq(q, j + 1, Len(q)) \in Seq(S)
  OBVIOUS
<1> QED  BY <1>1 DEF RemoveAt

LEMMA OrderlyTail ==
  ASSUME NEW S, NEW q \in Seq(Event), q # << >>, Orderly(q, S)
  PROVE  /\ Head(q) \in Event /\ Tail(q) \in Seq(Event) /\ Orderly(Tail(q), S)
         /\ Heralds(Head(q)) =>
              Head(q).turn \in S /\ Orderly(Tail(q), S \ {Head(q).turn})
<1> DEFINE t == Tail(q)
<1>1. /\ Head(q) = q[1] /\ Head(q) \in Event /\ t \in Seq(Event) /\ 1 \in DOMAIN q
      /\ \A k \in DOMAIN t : k \in Nat /\ k + 1 \in DOMAIN q /\ k + 1 # 1 /\ t[k] = q[k + 1]
  OBVIOUS
<1> HIDE DEF t
<1>2. \A k, m \in DOMAIN t : k + 1 = m + 1 => k = m
  BY <1>1
<1>3. Orderly(t, S)
  BY <1>1, <1>2 DEF Orderly
<1>4. Heralds(Head(q)) => Head(q).turn \in S /\ Orderly(t, S \ {Head(q).turn})
  BY <1>1, <1>3 DEF Orderly
<1> QED  BY <1>1, <1>3, <1>4 DEF t

LEMMA OrderlyAppend ==
  ASSUME NEW S, NEW q \in Seq(Event), NEW e \in Event, Orderly(q, S)
  PROVE  /\ Append(q, e) \in Seq(Event)
         /\ ~Heralds(e) => Orderly(Append(q, e), S)
         /\ e.turn \notin S => Orderly(Append(q, e), S \cup {e.turn})
<1> DEFINE a == Append(q, e)
           n == Len(q) + 1
<1>1. /\ a \in Seq(Event) /\ a[n] = e
      /\ \A k \in DOMAIN a : k = n \/ (k \in DOMAIN q /\ a[k] = q[k])
  OBVIOUS
<1> HIDE DEF a, n
<1> QED  BY <1>1 DEF Orderly, a

\* What a turn is told by its own call stays true.
LEMMA OwnStays ==
  ASSUME VInv, Grows, NEW u \in Turns, OwnCall(u), turn[u] \in TurnRecord,
         turn'[u].call = turn[u].call, turn'[u].clip = turn[u].clip,
         turn'[u].future = turn[u].future,
         turn'[u].label \in {turn[u].label, turn[u].future}
  PROVE  OwnCall(u)'
<1>1. CASE turn[u].call = NoCall
  BY <1>1 DEF OwnCall, OwnLabel
<1>2. CASE turn[u].call # NoCall
  <2> DEFINE c == turn[u].call
  <2>1. c \in Requests /\ c <= arrived
    BY <1>2 DEF OwnCall, TurnRecord, NoCall, Requests
  <2>2. /\ c <= arrived' /\ req'[c].op = req[c].op /\ req'[c].clip = req[c].clip
        /\ req[c].torn => req'[c].torn
    BY <2>1 DEF Grows, Requests
  <2>3. \A label : OwnLabel(u, label) /\ label.decision = "known" =>
          (~req'[c].torn => <<label.id, Head(turn[u].clip)>> \in past'.enrolled)
    BY <2>2 DEF OwnLabel, Grows
  <2> QED  BY <1>2, <2>2, <2>3 DEF OwnCall, OwnLabel
<1> QED  BY <1>1, <1>2

\* How far the other turns are is not changed by a step of u.
LEMMA StagesKept ==
  ASSUME NEW u \in Turns, \A w \in Turns \ {u} : turn'[w] = turn[w],
         turn'[u].stage = turn[u].stage, turn'[u].completed = turn[u].completed
  PROVE  Uttered' = Uttered /\ Transcribed' = Transcribed /\ Announced' = Announced
<1>1. \A w \in Turns : turn'[w].stage = turn[w].stage /\ turn'[w].completed = turn[w].completed
  OBVIOUS
<1> QED  BY <1>1 DEF Uttered, Transcribed, Announced, Job

LEMMA StageMoves ==
  ASSUME NEW u \in Turns, \A w \in Turns \ {u} : turn'[w] = turn[w],
         turn'[u].stage # "silent", turn[u].stage # "completed"
  PROVE  /\ Uttered \subseteq Uttered' /\ u \in Uttered' /\ Announced \subseteq Announced'
         /\ turn'[u].stage = "transcribed" => Transcribed' = Transcribed \cup {u}
         /\ turn'[u].stage # "transcribed" => Transcribed' = Transcribed \ {u}
BY DEF Uttered, Transcribed, Announced, Job

LEMMA NotTranscribed ==
  ASSUME NEW u \in Turns, turn[u].stage # "transcribed"
  PROVE  u \notin Transcribed /\ Transcribed \ {u} = Transcribed
BY DEF Transcribed

LEMMA LoadTurns ==
  ASSUME VInv
  PROVE  load.turns \in Seq(Clips) /\ MaxTurns \in Nat /\ Len(load.turns) <= MaxTurns
BY TurnsAssumption DEF VInv, SInv, CountersOK

LEMMA SpeakStep ==
  ASSUME NInv, VInv', Grows, NEW u \in Turns, Speak(u)
  PROVE  SessOK'
<1> DEFINE t == turn[u]
           clip == load.turns[u]
           e == [kind |-> "speech_started", turn |-> u]
<1>1. /\ t.stage = "silent" /\ turn' = [turn EXCEPT ![u].stage = "spoken", ![u].clip = clip]
      /\ textOutput' = Append(textOutput, e) /\ UNCHANGED <<stt, pool, jobs, conn, opens>>
  BY DEF Speak
<1>2. clip \in Clips /\ "spoken" \in Stages
  <2>1. u \in 1..Len(load.turns)
    BY LoadTurns DEF NInv, Speak, Turns
  <2> QED  BY <2>1, LoadTurns DEF NInv, Stages
<1>3. turn \in [Turns -> TurnRecord] /\ t \in TurnRecord
  BY DEF NInv, SessOK, SessionTyped
<1> HIDE DEF clip
<1>4. Records(u, "spoken", clip, t.item, t.completed, t.call, t.future, t.label)
  BY <1>1, <1>2, <1>3, TurnWrites DEF TurnRecord
<1>5. t.call = NoCall
  BY <1>1 DEF NInv, SessOK, Staged
<1>6. e \in Event /\ ~Heralds(e)
  BY DEF Event, Heralds
<1>7. /\ Uttered \subseteq Uttered' /\ Announced \subseteq Announced' /\ Transcribed' = Transcribed
  <2>1. turn[u].stage \notin {"completed", "transcribed"}
    BY <1>1
  <2>2. turn'[u].stage = "spoken" /\ \A w \in Turns \ {u} : turn'[w] = turn[w]
    BY <1>4 DEF Records, RecordIs
  <2> QED  BY <2>1, <2>2, StageMoves, NotTranscribed
<1> HIDE DEF e, t
<1>8. textOutput' \in Seq(Event) /\ Orderly(textOutput', Transcribed')
  BY <1>1, <1>6, <1>7, OrderlyAppend DEF NInv, SessOK, SessionTyped, Staged
<1>9. SessionTyped'
  BY <1>1, <1>4, <1>8 DEF NInv, SessOK, SessionTyped, Records
<1>10. Staged'
  <2>1. pool' \in Seq(Uttered') /\ jobs' \in Seq(Announced')
    BY <1>1, <1>7, SeqMore DEF NInv, SessOK, Staged
  <2>2. stt'.pc # "idle" => stt'.turn \in Turns /\ turn'[stt'.turn].stage = "posted"
    BY <1>1, <1>4 DEF NInv, SessOK, Staged, Records, t
  <2>3. \A w \in Turns : IF turn'[w].stage = "silent" THEN turn'[w].call = NoCall
                         ELSE turn'[w].clip \in Clips
    BY <1>2, <1>4 DEF NInv, SessOK, Staged, Records, RecordIs
  <2> QED  BY <1>8, <2>1, <2>2, <2>3 DEF Staged
<1>11. ASSUME NEW w \in Turns PROVE OwnCall(w)'
  <2>1. CASE w = u
    BY <1>4, <1>5, <2>1 DEF NInv, SessOK, OwnCall, OwnLabel, Records, RecordIs, t
  <2>2. CASE w # u
    BY <1>3, <1>4, <2>2, OwnStays DEF NInv, SessOK, Records
  <2> QED  BY <2>1, <2>2
<1> QED  BY <1>9, <1>10, <1>11 DEF SessOK

\* The STT thread moves one turn on.
LEMMA SttStep ==
  ASSUME NInv, VInv', Grows, NEW u \in Turns, NEW stage \in {"posted", "dropped"},
         turn[u].stage \in {"spoken", "posted"},
         turn' = [turn EXCEPT ![u].stage = stage],
         stt' \in [pc : {"idle", "post", "join"}, turn : 0..MaxTurns],
         stt'.pc # "idle" => stt'.turn = u /\ stage = "posted",
         pool' \in Seq(Uttered \cup {u}), UNCHANGED <<jobs, textOutput, conn, opens>>
  PROVE  SessOK'
<1> DEFINE t == turn[u]
<1>1. turn \in [Turns -> TurnRecord] /\ t \in TurnRecord
  BY DEF NInv, SessOK, SessionTyped
<1>2. stage \in Stages
  BY DEF Stages
<1>3. u \in Uttered /\ t.clip \in Clips
  BY DEF NInv, SessOK, Staged, Uttered
<1>4. Records(u, stage, t.clip, t.item, t.completed, t.call, t.future, t.label)
  BY <1>1, <1>2, <1>3, TurnWrites DEF TurnRecord
<1>5. /\ Uttered \subseteq Uttered' /\ u \in Uttered' /\ Announced \subseteq Announced'
      /\ Transcribed' = Transcribed
  <2>1. turn'[u].stage = stage /\ \A w \in Turns \ {u} : turn'[w] = turn[w]
    BY <1>4 DEF Records, RecordIs
  <2>2. turn[u].stage \notin {"completed", "transcribed"}
    OBVIOUS
  <2> QED  BY <2>1, <2>2, StageMoves, NotTranscribed
<1>6. pool' \in Seq(Uttered') /\ jobs' \in Seq(Announced')
  BY <1>5, SeqMore DEF NInv, SessOK, Staged
<1>7. SessionTyped'
  <2>1. pool' \in Seq(Turns)
    BY <1>6 DEF Uttered
  <2> QED  BY <1>4, <2>1 DEF NInv, SessOK, SessionTyped, Records
<1>8. Staged'
  <2>1. \A w \in Turns : IF turn'[w].stage = "silent" THEN turn'[w].call = NoCall
                         ELSE turn'[w].clip \in Clips
    BY <1>3, <1>4 DEF NInv, SessOK, Staged, Records, RecordIs
  <2>2. stt'.pc # "idle" => stt'.turn \in Turns /\ turn'[stt'.turn].stage = "posted"
    BY <1>4 DEF Records, RecordIs
  <2> QED  BY <1>5, <1>6, <2>1, <2>2 DEF NInv, SessOK, Staged
<1>9. ASSUME NEW w \in Turns PROVE OwnCall(w)'
  BY <1>1, <1>4, OwnStays DEF NInv, SessOK, Records, RecordIs
<1> QED  BY <1>7, <1>8, <1>9 DEF SessOK

\* Numbers taken as rows: one of them comes first.
LEMMA LeastOf ==
  ASSUME NEW S, IsFiniteSet(S), S \subseteq Nat, S # {}
  PROVE  \E t \in S : \A w \in S : t <= w
<1> DEFINE f == [n \in S |-> [row |-> n]]
           R == {[row |-> n] : n \in S}
           x == InOrder(R)[1]
<1>1. IsFiniteSet(R)
  <2>1. f \in Surjection(S, R)
    BY DEF Surjection
  <2> HIDE DEF f, R
  <2> QED  BY <2>1, FS_Surjection
<1>2. Keyed(R)
  BY <1>1 DEF Keyed
<1>3. 1 \in 1..Cardinality(R)
  <2>1. R # {}
    OBVIOUS
  <2> HIDE DEF R
  <2> QED  BY <1>1, <2>1, FS_EmptySet, FS_CardinalityType
<1>4. x \in R /\ Cardinality(Before(R, x)) = 0
  <2> HIDE DEF R
  <2> QED  BY <1>2, <1>3, InOrderProperties
<1> HIDE DEF x
<1>5. Before(R, x) = {}
  <2> HIDE DEF R
  <2> QED  BY <1>2, <1>4, BeforeFinite, FS_EmptySet
<1>6. x.row \in S
  BY <1>4
<1>7. ASSUME NEW n \in S PROVE x.row <= n
  <2>1. [row |-> n] \in R /\ [row |-> n].row = n
    OBVIOUS
  <2>2. ~([row |-> n].row < x.row)
    <3> HIDE DEF R
    <3> QED  BY <1>5, <2>1 DEF Before
  <2>3. ~(n < x.row)
    BY <2>1, <2>2
  <2>4. n \in Nat /\ x.row \in Nat
    BY <1>6
  <2> QED  BY <2>3, <2>4
<1> QED  BY <1>6, <1>7

LEMMA SttTakeStep ==
  ASSUME NInv, VInv', Grows, SttTake
  PROVE  SessOK'
<1> DEFINE u == CHOOSE t \in Waiting : \A w \in Waiting : t <= w
<1>1. u \in Waiting
  <2>1. Waiting # {} /\ Waiting \subseteq Nat /\ Waiting \in SUBSET Turns
    BY DEF SttTake, Waiting, Turns
  <2>2. IsFiniteSet(Waiting)
    <3>1. IsFiniteSet(Turns)
      BY LoadTurns, FS_Interval DEF NInv, Turns
    <3> QED  BY <2>1, <3>1, FS_Subset
  <2>3. \E t \in Waiting : \A w \in Waiting : t <= w
    BY <2>1, <2>2, LeastOf
  <2> QED  BY <2>3
<1>2. /\ stt' = [pc |-> "post", turn |-> u] /\ turn' = [turn EXCEPT ![u].stage = "posted"]
      /\ pool' = Append(pool, u) /\ UNCHANGED <<jobs, textOutput, conn, opens>>
  BY DEF SttTake
<1> HIDE DEF u
<1>3. u \in Turns /\ turn[u].stage = "spoken"
  BY <1>1 DEF Waiting
<1>4. pool' \in Seq(Uttered \cup {u})
  <2>1. pool \in Seq(Uttered \cup {u})
    BY SeqMore DEF NInv, SessOK, Staged
  <2> QED  BY <1>2, <2>1
<1>5. stt' \in [pc : {"idle", "post", "join"}, turn : 0..MaxTurns] /\ stt'.turn = u
  BY <1>2, <1>3 DEF Turns
<1> QED  BY <1>2, <1>3, <1>4, <1>5, SttStep

LEMMA SttPostedStep ==
  ASSUME NInv, VInv', Grows, SttPosted
  PROVE  SessOK'
<1> DEFINE u == stt.turn
<1>1. /\ stt.pc = "post" /\ UNCHANGED <<pool, jobs, textOutput, conn, opens>>
      /\ u \in Turns /\ turn[u].stage = "posted"
  BY DEF SttPosted, NInv, SessOK, Staged
<1>2. stt \in [pc : {"idle", "post", "join"}, turn : 0..MaxTurns] /\ turn \in [Turns -> TurnRecord]
  BY DEF NInv, SessOK, SessionTyped
<1>3. CASE stt' = [stt EXCEPT !.pc = "join"] /\ UNCHANGED turn
  <2>1. SessionTyped'
    BY <1>1, <1>2, <1>3 DEF NInv, SessOK, SessionTyped
  <2>2. Staged'
    BY <1>1, <1>2, <1>3 DEF NInv, SessOK, Staged, Uttered, Transcribed, Announced
  <2>3. \A w \in Turns : OwnCall(w)'
    BY <1>2, <1>3, OwnStays DEF NInv, SessOK
  <2> QED  BY <2>1, <2>2, <2>3 DEF SessOK
<1>4. CASE stt' = [pc |-> "idle", turn |-> 0] /\ turn' = [turn EXCEPT ![u].stage = "dropped"]
  <2>1. pool' \in Seq(Uttered \cup {u})
    BY <1>1, SeqMore DEF NInv, SessOK, Staged
  <2>2. stt' \in [pc : {"idle", "post", "join"}, turn : 0..MaxTurns] /\ stt'.pc = "idle"
    BY <1>4, LoadTurns DEF NInv
  <2> HIDE DEF u
  <2> QED  BY <1>1, <1>4, <2>1, <2>2, SttStep
<1> QED  BY <1>3, <1>4 DEF SttPosted

\* A transcript goes out with the label its own call has returned, if any.
LEMMA SttJoinStep ==
  ASSUME NInv, VInv', Grows, SttJoin
  PROVE  SessOK'
<1> DEFINE u == stt.turn
           t == turn[u]
           e == [kind |-> "transcription_completed", turn |-> u]
<1>1. /\ stt.pc = "join" /\ UNCHANGED <<pool, jobs, conn, opens>>
      /\ turn' = [turn EXCEPT ![u].stage = "transcribed", ![u].label = t.future]
      /\ textOutput' = Append(textOutput, e) /\ stt' = [pc |-> "idle", turn |-> 0]
  BY DEF SttJoin, JoinedLabel
<1>2. u \in Turns /\ t.stage = "posted"
  BY <1>1 DEF NInv, SessOK, Staged
<1>3. turn \in [Turns -> TurnRecord] /\ t \in TurnRecord /\ t.clip \in Clips
  BY <1>2 DEF NInv, SessOK, SessionTyped, Staged
<1>4. e \in Event /\ e.turn = u
  BY <1>2 DEF Event
<1>5. "transcribed" \in Stages /\ t.future \in Label
  BY <1>3 DEF Stages, TurnRecord
<1> HIDE DEF u, e
<1>6. Records(u, "transcribed", t.clip, t.item, t.completed, t.call, t.future, t.future)
  BY <1>1, <1>2, <1>3, <1>5, TurnWrites DEF TurnRecord
<1>7. /\ \A w \in Turns \ {u} : turn'[w] = turn[w]
      /\ turn'[u].stage = "transcribed" /\ turn'[u].clip = t.clip /\ turn'[u].call = t.call
      /\ turn'[u].future = t.future /\ turn'[u].label = t.future
      /\ turn' \in [Turns -> TurnRecord]
  BY <1>6 DEF Records, RecordIs
<1>8. /\ Uttered \subseteq Uttered' /\ Announced \subseteq Announced'
      /\ Transcribed' = Transcribed \cup {u} /\ u \notin Transcribed
  BY <1>2, <1>7, StageMoves, NotTranscribed
<1>9. textOutput' \in Seq(Event) /\ Orderly(textOutput', Transcribed')
  BY <1>1, <1>4, <1>8, OrderlyAppend DEF NInv, SessOK, SessionTyped, Staged
<1>10. SessionTyped'
  <2>1. stt' \in [pc : {"idle", "post", "join"}, turn : 0..MaxTurns]
    BY <1>1, LoadTurns DEF NInv
  <2> QED  BY <1>1, <1>7, <1>9, <2>1 DEF NInv, SessOK, SessionTyped
<1>11. Staged'
  <2>1. pool' \in Seq(Uttered') /\ jobs' \in Seq(Announced')
    BY <1>1, <1>8, SeqMore DEF NInv, SessOK, Staged
  <2>2. \A w \in Turns : IF turn'[w].stage = "silent" THEN turn'[w].call = NoCall
                         ELSE turn'[w].clip \in Clips
    BY <1>3, <1>7 DEF NInv, SessOK, Staged
  <2>3. stt'.pc = "idle"
    BY <1>1
  <2> QED  BY <1>9, <2>1, <2>2, <2>3 DEF Staged
<1>12. ASSUME NEW w \in Turns PROVE OwnCall(w)'
  BY <1>3, <1>7, OwnStays DEF NInv, SessOK
<1> QED  BY <1>10, <1>11, <1>12 DEF SessOK

\* A call, or its result, is entered in u's record.
LEMMA CallStep ==
  ASSUME NInv, VInv', Grows, NEW u \in Uttered, NEW call, NEW future,
         Records(u, turn[u].stage, turn[u].clip, turn[u].item, turn[u].completed,
                 call, future, turn[u].label),
         pool' \in Seq(Uttered), UNCHANGED <<stt, jobs, textOutput, conn, opens>>, OwnCall(u)'
  PROVE  SessOK'
<1>1. u \in Turns /\ turn[u].stage # "silent" /\ turn[u].clip \in Clips
  BY DEF NInv, SessOK, Staged, Uttered
<1>2. /\ \A w \in Turns \ {u} : turn'[w] = turn[w] /\ turn' \in [Turns -> TurnRecord]
      /\ turn'[u].stage = turn[u].stage /\ turn'[u].clip = turn[u].clip
      /\ turn'[u].completed = turn[u].completed
  BY <1>1 DEF Records, RecordIs
<1>3. Uttered' = Uttered /\ Transcribed' = Transcribed /\ Announced' = Announced
  BY <1>1, <1>2, StagesKept
<1>4. SessionTyped'
  <2>1. pool' \in Seq(Turns) /\ turn' \in [Turns -> TurnRecord]
    BY DEF Uttered, Records
  <2> QED  BY <2>1 DEF NInv, SessOK, SessionTyped
<1>5. Staged'
  <2>1. \A w \in Turns : IF turn'[w].stage = "silent" THEN turn'[w].call = NoCall
                         ELSE turn'[w].clip \in Clips
    BY <1>1, <1>2 DEF NInv, SessOK, Staged
  <2>2. stt'.pc # "idle" => stt'.turn \in Turns /\ turn'[stt'.turn].stage = "posted"
    BY <1>2 DEF NInv, SessOK, Staged
  <2> QED  BY <1>3, <2>1, <2>2 DEF NInv, SessOK, Staged
<1>6. ASSUME NEW w \in Turns, w # u PROVE OwnCall(w)'
  <2>1. turn'[w] = turn[w] /\ turn[w] \in TurnRecord /\ OwnCall(w)
    BY <1>2, <1>6 DEF NInv, SessOK, SessionTyped
  <2> QED  BY <2>1, OwnStays DEF NInv
<1> QED  BY <1>4, <1>5, <1>6 DEF SessOK

LEMMA PoolHead ==
  ASSUME NInv, pool # << >>
  PROVE  /\ Head(pool) \in Uttered /\ Tail(pool) \in Seq(Uttered) /\ pool \in Seq(Uttered)
         /\ Head(pool) \in Turns /\ turn[Head(pool)] \in TurnRecord
         /\ turn[Head(pool)].clip \in Clips /\ OwnCall(Head(pool))
         /\ turn \in [Turns -> TurnRecord]
<1>1. Head(pool) \in Uttered /\ Tail(pool) \in Seq(Uttered) /\ pool \in Seq(Uttered)
  BY DEF NInv, SessOK, Staged
<1> QED  BY <1>1 DEF NInv, SessOK, SessionTyped, Staged, Uttered

\* The call made for a turn is about its own audio.
LEMMA IdentifyCallsStep ==
  ASSUME NInv, IdentifyCalls
  PROVE  NInv'
<1>1. PICK u : u = Head(pool)
  OBVIOUS
<1>2. /\ pool # << >> /\ turn[u].call = NoCall
      /\ Arrive("identify", NoSpeaker, NoInvite, turn[u].clip)
      /\ turn' = [turn EXCEPT ![u].call = arrived + 1]
      /\ UNCHANGED <<stt, pool, jobs, textOutput, conn, opens>>
  BY <1>1 DEF IdentifyCalls
<1>3. /\ u \in Uttered /\ u \in Turns /\ pool \in Seq(Uttered) /\ turn[u] \in TurnRecord
      /\ turn[u].clip \in Clips /\ OwnCall(u) /\ turn \in [Turns -> TurnRecord]
  BY <1>1, <1>2, PoolHead
<1>4. Asks("identify", NoSpeaker, NoInvite, turn[u].clip)
  BY <1>3 DEF Asks, AsyncOps, Embeds, Questions, InviteOps
<1> DEFINE c == arrived + 1
<1>5. /\ VInv' /\ Grows /\ c \in Requests /\ arrived' = c
      /\ req'[c].op = "identify" /\ req'[c].clip = turn[u].clip
  <2>1. \A op, clip : /\ Arrive(op, NoSpeaker, NoInvite, clip)
                      /\ Asks(op, NoSpeaker, NoInvite, clip)
                      => /\ VInv' /\ Grows /\ c \in Requests /\ arrived' = c
                         /\ req'[c].op = op /\ req'[c].clip = clip
    BY ArriveVoices DEF NInv
  <2> QED  BY <1>2, <1>4, <2>1
<1>6. c \in 0..MaxRequests
  BY <1>5, LoadsKnown DEF Requests, NInv, VInv
<1> HIDE DEF c
<1>7. Records(u, turn[u].stage, turn[u].clip, turn[u].item, turn[u].completed,
              c, turn[u].future, turn[u].label)
  <2>1. turn' = [turn EXCEPT ![u].call = c]
    BY <1>2 DEF c
  <2>2. turn[u].label \in Label /\ turn[u].stage \in Stages /\ turn[u].item \in Nat
    BY <1>3 DEF TurnRecord, Stages
  <2> QED  BY <1>3, <1>6, <2>1, <2>2, TurnWrites
<1>8. OwnCall(u)'
  <2>1. turn[u].future.decision # "known" /\ turn[u].label.decision # "known"
    BY <1>2, <1>3 DEF OwnCall, OwnLabel
  <2>2. /\ turn'[u].call = c /\ turn'[u].clip = turn[u].clip
        /\ turn'[u].future = turn[u].future /\ turn'[u].label = turn[u].label
    BY <1>7 DEF Records, RecordIs
  <2>3. c <= arrived'
    BY <1>5 DEF Requests
  <2> QED  BY <1>5, <2>1, <2>2, <2>3 DEF OwnCall, OwnLabel
<1> QED  BY <1>2, <1>3, <1>5, <1>7, <1>8, CallStep DEF NInv

\* What a call returns is about the turn it was made for.
LEMMA IdentifyReturnsStep ==
  ASSUME NInv, VInv', Grows, IdentifyReturns
  PROVE  SessOK'
<1>1. PICK u : u = Head(pool)
  OBVIOUS
<1> DEFINE c == turn[u].call
           verdicts == req[c].verdicts
<1>2. PICK future : /\ turn' = [turn EXCEPT ![u].future = future]
                    /\ (Answered(c) /\ future = Last(verdicts)) \/ future = Unknown
  BY <1>1 DEF IdentifyReturns
<1>3. /\ pool # << >> /\ pool' = Tail(pool)
      /\ UNCHANGED <<service, stt, jobs, textOutput, conn, opens>>
  BY DEF IdentifyReturns
<1>4. /\ u \in Uttered /\ u \in Turns /\ pool' \in Seq(Uttered) /\ turn[u] \in TurnRecord
      /\ turn[u].clip \in Clips /\ OwnCall(u) /\ turn \in [Turns -> TurnRecord]
  BY <1>1, <1>3, PoolHead
<1>5. Answered(c) =>
        /\ c \in Requests /\ verdicts \in Seq(Verdicts) /\ Len(verdicts) = 1
        /\ Last(verdicts) = verdicts[1] /\ req[c].clip = turn[u].clip
  <2> SUFFICES ASSUME Answered(c)
               PROVE  /\ c \in Requests /\ verdicts \in Seq(Verdicts) /\ Len(verdicts) = 1
                      /\ Last(verdicts) = verdicts[1] /\ req[c].clip = turn[u].clip
    OBVIOUS
  <2>1. c # NoCall /\ req[c].pc = "answered"
    BY DEF Answered
  <2>2. c \in Requests /\ req[c].op = "identify" /\ req[c].clip = turn[u].clip
    BY <1>4, <2>1 DEF OwnCall, TurnRecord, NoCall, Requests
  <2>3. verdicts # << >> /\ Proper(req[c])
    BY <2>1, <2>2 DEF NInv, VInv, Matched, SInv
  <2>4. verdicts \in Seq(Verdicts) /\ Len(verdicts) <= 1
    BY <2>2, <2>3 DEF Proper, FieldsTyped
  <2> HIDE DEF c, verdicts
  <2>5. Len(verdicts) = 1
    <3>1. ASSUME NEW s \in Seq(Verdicts), s # << >> PROVE Len(s) \in Nat /\ Len(s) # 0
      BY <3>1
    <3>2. \A n \in Nat : n # 0 /\ n <= 1 => n = 1
      OBVIOUS
    <3> QED  BY <2>3, <2>4, <3>1, <3>2, Zenon
  <2> QED  BY <2>2, <2>4, <2>5 DEF Last
<1>6. future \in Label
  <2>1. Unknown \in Label /\ Verdicts \subseteq Label
    BY DEF Unknown, Label, Verdicts
  <2> HIDE DEF c, verdicts
  <2>2. Answered(c) => Last(verdicts) \in Verdicts
    <3>1. ASSUME NEW s \in Seq(Verdicts), Len(s) = 1 PROVE s[1] \in Verdicts
      BY <3>1
    <3> QED  BY <1>5, <3>1, Zenon
  <2> QED  BY <1>2, <2>1, <2>2
<1>7. OwnLabel(u, future)
  <2> SUFFICES ASSUME future.decision = "known", turn[u].call # NoCall => ~req[c].torn
               PROVE  turn[u].call # NoCall /\ <<future.id, Head(turn[u].clip)>> \in past.enrolled
    BY DEF OwnLabel
  <2>1. Answered(c) /\ future = verdicts[1]
    BY <1>2, <1>5 DEF Unknown
  <2>2. c # NoCall /\ ~req[c].torn /\ c \in Requests
    BY <1>5, <2>1 DEF Answered
  <2>3. <<future.id, req[c].clip[1]>> \in Named(c)
    BY <1>5, <2>1 DEF Named
  <2>4. Named(c) \subseteq past.enrolled
    BY <2>2 DEF NInv, VInv, Matched
  <2>5. Head(turn[u].clip) = turn[u].clip[1]
    BY <1>4
  <2> QED  BY <1>5, <2>1, <2>2, <2>3, <2>4, <2>5
<1>8. Records(u, turn[u].stage, turn[u].clip, turn[u].item, turn[u].completed,
              turn[u].call, future, turn[u].label)
  <2>1. turn[u].call \in 0..MaxRequests /\ turn[u].stage \in Stages /\ turn[u].item \in Nat
    BY <1>4 DEF TurnRecord, Stages
  <2> QED  BY <1>2, <1>4, <1>6, <2>1, TurnWrites
<1>9. OwnCall(u)'
  <2>1. UNCHANGED <<req, past, arrived>>
    BY <1>3 DEF service
  <2>2. /\ turn'[u].call = turn[u].call /\ turn'[u].clip = turn[u].clip
        /\ turn'[u].future = future /\ turn'[u].label = turn[u].label
    BY <1>8 DEF Records, RecordIs
  <2> QED  BY <1>4, <1>7, <2>1, <2>2 DEF OwnCall, OwnLabel
<1> QED  BY <1>3, <1>4, <1>8, <1>9, CallStep

\* What becomes of the response and of its items.
LEMMA ConnTyped ==
  ASSUME NEW c \in Conn
  PROVE  /\ Started(c) \in Conn /\ Current(c) \in Conn /\ Opened(c) \in Conn /\ Finished(c) \in Conn
         /\ c.item \in Nat
<1>1. c.item \in Nat /\ c.next \in Nat \ {0} /\ c.responding \in BOOLEAN
  BY DEF Conn
<1>2. Started(c) \in Conn
  <2>1. PICK m : m = [c EXCEPT !.item = c.next]
    OBVIOUS
  <2>2. PICK k : k = c.next + 1
    OBVIOUS
  <2>3. m \in Conn /\ k \in Nat \ {0}
    BY <1>1, <2>1, <2>2 DEF Conn
  <2>4. [m EXCEPT !.next = k] \in Conn
    BY <2>3 DEF Conn
  <2> QED  BY <2>1, <2>2, <2>4 DEF Started
<1>3. [Started(c) EXCEPT !.responding = TRUE] \in Conn
  BY <1>2 DEF Conn
<1>4. Finished(c) \in Conn
  BY <1>1 DEF Conn, Finished, NoItem
<1> QED  BY <1>1, <1>2, <1>3, <1>4, Zenon DEF Current, Opened

\* A turn that is given its item is not moved on.
LEMMA OnSpeechStartedStep ==
  ASSUME NInv, VInv', Grows, OnSpeechStarted
  PROVE  SessOK'
<1>1. PICK u : u = Head(textOutput).turn
  OBVIOUS
<1>2. /\ textOutput # << >> /\ textOutput' = Tail(textOutput)
      /\ conn' = Started(IF conn.responding THEN Finished(conn) ELSE conn)
      /\ turn' = [turn EXCEPT ![u].item = conn'.item]
      /\ UNCHANGED <<stt, pool, jobs>> /\ opens' = opens
  BY <1>1 DEF OnSpeechStarted
<1>3. /\ u \in Turns /\ textOutput' \in Seq(Event) /\ Orderly(textOutput', Transcribed)
  <2>1. Head(textOutput) \in Event /\ textOutput' \in Seq(Event) /\ Orderly(textOutput', Transcribed)
    BY <1>2, OrderlyTail DEF NInv, SessOK, SessionTyped, Staged
  <2> QED  BY <1>1, <2>1 DEF Event
<1>4. turn \in [Turns -> TurnRecord] /\ turn[u] \in TurnRecord
  BY <1>3 DEF NInv, SessOK, SessionTyped
<1>5. conn' \in Conn /\ conn'.item \in Nat
  <2>1. conn \in Conn
    BY DEF NInv, SessOK, SessionTyped
  <2>2. Started(conn) \in Conn /\ Finished(conn) \in Conn
    BY <2>1, ConnTyped
  <2>3. Started(Finished(conn)) \in Conn
    BY <2>2, ConnTyped
  <2>4. conn' \in Conn
    BY <1>2, <2>2, <2>3
  <2> QED  BY <2>4, ConnTyped
<1>6. PICK item \in Nat : item = conn'.item
  BY <1>5
<1>7. Records(u, turn[u].stage, turn[u].clip, item, turn[u].completed, turn[u].call,
              turn[u].future, turn[u].label)
  <2>1. /\ turn[u].stage \in Stages /\ turn[u].clip \in Clips \cup {<< >>}
        /\ turn[u].call \in 0..MaxRequests /\ turn[u].label \in Label
    BY <1>4 DEF TurnRecord, Stages
  <2>2. turn' = [turn EXCEPT ![u].item = item]
    BY <1>2, <1>6
  <2> QED  BY <1>3, <1>4, <1>6, <2>1, <2>2, TurnWrites
<1>8. /\ \A w \in Turns : /\ turn'[w].stage = turn[w].stage /\ turn'[w].clip = turn[w].clip
                          /\ turn'[w].call = turn[w].call /\ turn'[w].future = turn[w].future
                          /\ turn'[w].label = turn[w].label
                          /\ turn'[w].completed = turn[w].completed
      /\ turn' \in [Turns -> TurnRecord]
  BY <1>7 DEF Records, RecordIs
<1>9. Uttered' = Uttered /\ Transcribed' = Transcribed /\ Announced' = Announced
  BY <1>8 DEF Uttered, Transcribed, Announced, Job
<1>10. SessionTyped'
  BY <1>2, <1>3, <1>5, <1>8 DEF NInv, SessOK, SessionTyped
<1>11. Staged'
  <2>1. \A w \in Turns : IF turn'[w].stage = "silent" THEN turn'[w].call = NoCall
                         ELSE turn'[w].clip \in Clips
    BY <1>8 DEF NInv, SessOK, Staged
  <2>2. stt'.pc # "idle" => stt'.turn \in Turns /\ turn'[stt'.turn].stage = "posted"
    BY <1>2, <1>8 DEF NInv, SessOK, Staged
  <2> QED  BY <1>2, <1>3, <1>9, <2>1, <2>2 DEF NInv, SessOK, Staged
<1>12. ASSUME NEW w \in Turns PROVE OwnCall(w)'
  <2>1. turn[w] \in TurnRecord /\ OwnCall(w)
    BY <1>4 DEF NInv, SessOK
  <2> QED  BY <1>8, <2>1, OwnStays DEF NInv
<1> QED  BY <1>10, <1>11, <1>12 DEF SessOK

\* The job's item is the one that the transcript is announced under, and no
\* second transcript of the turn is on its way.
LEMMA OnTranscriptionCompletedStep ==
  ASSUME NInv, VInv', Grows, OnTranscriptionCompleted
  PROVE  SessOK'
<1>1. PICK u : u = Head(textOutput).turn
  OBVIOUS
<1>2. PICK c : c = Current(conn)
  OBVIOUS
<1>3. PICK job : job = [turn |-> u, item |-> c.item, call |-> NoCall]
  OBVIOUS
<1>4. /\ textOutput # << >> /\ textOutput' = Tail(textOutput) /\ Heralds(Head(textOutput))
      /\ turn' = [turn EXCEPT ![u].stage = "completed", ![u].completed = c.item]
      /\ conn' = Opened(c) /\ jobs' = Append(jobs, job)
      /\ UNCHANGED <<stt, pool>> /\ opens' = opens
  BY <1>1, <1>2, <1>3 DEF OnTranscriptionCompleted, InputItem, Heralds
<1>5. /\ u \in Transcribed /\ textOutput' \in Seq(Event) /\ Orderly(textOutput', Transcribed \ {u})
  BY <1>1, <1>4, OrderlyTail DEF NInv, SessOK, SessionTyped, Staged
<1>6. u \in Turns /\ turn[u].stage = "transcribed"
  BY <1>5 DEF Transcribed
<1>7. turn \in [Turns -> TurnRecord] /\ turn[u] \in TurnRecord /\ turn[u].clip \in Clips
  BY <1>6 DEF NInv, SessOK, SessionTyped, Staged
<1>8. conn' \in Conn /\ c.item \in Nat
  <2>1. c \in Conn
    BY <1>2, ConnTyped DEF NInv, SessOK, SessionTyped
  <2> QED  BY <1>4, <2>1, ConnTyped
<1>9. PICK item \in Nat : item = c.item
  BY <1>8
<1>10. Records(u, "completed", turn[u].clip, turn[u].item, item, turn[u].call,
               turn[u].future, turn[u].label)
  <2>1. turn[u].call \in 0..MaxRequests /\ turn[u].label \in Label /\ "completed" \in Stages
    BY <1>7 DEF TurnRecord, Stages
  <2>2. turn' = [turn EXCEPT ![u].stage = "completed", ![u].completed = item]
    BY <1>4, <1>9
  <2> QED  BY <1>6, <1>7, <1>9, <2>1, <2>2, TurnWrites
<1>11. /\ \A w \in Turns \ {u} : turn'[w] = turn[w]
       /\ turn' \in [Turns -> TurnRecord] /\ turn'[u].stage = "completed"
       /\ turn'[u].clip = turn[u].clip /\ turn'[u].completed = item
       /\ turn'[u].call = turn[u].call /\ turn'[u].future = turn[u].future
       /\ turn'[u].label = turn[u].label
  BY <1>10 DEF Records, RecordIs
<1>12. /\ Uttered \subseteq Uttered' /\ Announced \subseteq Announced'
       /\ Transcribed' = Transcribed \ {u}
  BY <1>6, <1>11, StageMoves
<1>13. jobs' \in Seq(Job) /\ jobs' \in Seq(Announced')
  <2>1. job \in Job /\ job.turn = u /\ job.item = item
    BY <1>3, <1>6, <1>9, LoadsKnown DEF Job, NoCall, NInv, VInv
  <2>2. job \in Announced'
    BY <1>11, <2>1 DEF Announced, Job
  <2>3. jobs \in Seq(Job) /\ jobs \in Seq(Announced')
    BY <1>12, SeqMore DEF NInv, SessOK, SessionTyped, Staged
  <2> QED  BY <1>4, <2>1, <2>2, <2>3
<1>14. SessionTyped'
  BY <1>4, <1>5, <1>8, <1>11, <1>13 DEF NInv, SessOK, SessionTyped
<1>15. Staged'
  <2>1. \A w \in Turns : IF turn'[w].stage = "silent" THEN turn'[w].call = NoCall
                         ELSE turn'[w].clip \in Clips
    BY <1>7, <1>11 DEF NInv, SessOK, Staged
  <2>2. stt'.pc # "idle" => stt'.turn \in Turns /\ turn'[stt'.turn].stage = "posted"
    BY <1>4, <1>6, <1>11 DEF NInv, SessOK, Staged
  <2>3. pool' \in Seq(Uttered')
    BY <1>4, <1>12, SeqMore DEF NInv, SessOK, Staged
  <2> QED  BY <1>5, <1>12, <1>13, <2>1, <2>2, <2>3 DEF Staged
<1>16. ASSUME NEW w \in Turns PROVE OwnCall(w)'
  <2>1. turn[w] \in TurnRecord /\ OwnCall(w)
    BY <1>7 DEF NInv, SessOK
  <2>2. /\ turn'[w].call = turn[w].call /\ turn'[w].clip = turn[w].clip
        /\ turn'[w].future = turn[w].future /\ turn'[w].label = turn[w].label
    BY <1>11
  <2> QED  BY <2>1, <2>2, OwnStays DEF NInv
<1> QED  BY <1>14, <1>15, <1>16 DEF SessOK

\* A step that moves no turn.
LEMMA TurnsStay ==
  ASSUME NInv, VInv', Grows, UNCHANGED <<turn, stt, pool>>,
         jobs' \in Seq(Job), jobs' \in Seq(Announced),
         textOutput' \in Seq(Event), Orderly(textOutput', Transcribed),
         conn' \in Conn, opens' \in Nat
  PROVE  SessOK'
<1>1. Uttered' = Uttered /\ Transcribed' = Transcribed /\ Announced' = Announced
  BY DEF Uttered, Transcribed, Announced
<1>2. SessionTyped'
  BY DEF NInv, SessOK, SessionTyped
<1>3. Staged'
  BY <1>1 DEF NInv, SessOK, Staged
<1>4. ASSUME NEW w \in Turns PROVE OwnCall(w)'
  <2>1. turn[w] \in TurnRecord /\ OwnCall(w)
    BY DEF NInv, SessOK, SessionTyped
  <2> QED  BY <2>1, OwnStays DEF NInv
<1> QED  BY <1>2, <1>3, <1>4 DEF SessOK

LEMMA Quietly ==
  ASSUME NInv
  PROVE  /\ jobs \in Seq(Job) /\ jobs \in Seq(Announced)
         /\ textOutput \in Seq(Event) /\ Orderly(textOutput, Transcribed)
         /\ conn \in Conn /\ opens \in Nat
BY DEF NInv, SessOK, SessionTyped, Staged

LEMMA ResponseSteps ==
  ASSUME NInv, VInv', Grows, OnTranscriptionCorrected \/ OpenResponse \/ FinishResponse
  PROVE  SessOK'
<1>1. CASE OnTranscriptionCorrected
  <2>1. textOutput' \in Seq(Event) /\ Orderly(textOutput', Transcribed)
    BY <1>1, Quietly, OrderlyTail DEF OnTranscriptionCorrected
  <2> QED  BY <1>1, <2>1, Quietly, TurnsStay DEF OnTranscriptionCorrected
<1>2. CASE OpenResponse
  <2>1. conn' \in Conn /\ opens' \in Nat
    BY <1>2, Quietly, ConnTyped DEF OpenResponse
  <2> QED  BY <1>2, <2>1, Quietly, TurnsStay DEF OpenResponse
<1>3. CASE FinishResponse
  <2>1. conn' \in Conn
    BY <1>3, Quietly, ConnTyped DEF FinishResponse
  <2> QED  BY <1>3, <2>1, Quietly, TurnsStay DEF FinishResponse
<1> QED  BY <1>1, <1>2, <1>3

LEMMA WorkingJob ==
  ASSUME NInv, NEW j \in Working
  PROVE  /\ j \in 1..Len(jobs) /\ jobs[j] \in Announced /\ jobs[j] \in Job
         /\ jobs[j].turn \in Turns /\ turn[jobs[j].turn].clip \in Clips
<1>1. j \in 1..Len(jobs)
  BY Quietly DEF Working, DiarizeWorkers
<1>2. jobs[j] \in Announced /\ jobs[j] \in Job
  BY <1>1, Quietly
<1>3. jobs[j].turn \in Turns /\ turn[jobs[j].turn].stage = "completed"
  BY <1>2 DEF Announced, Job
<1> QED  BY <1>1, <1>2, <1>3 DEF NInv, SessOK, Staged

\* The request changes nothing else of the job.
LEMMA DiarizeCallsStep ==
  ASSUME NInv, NEW j \in Working, DiarizeCalls(j)
  PROVE  NInv'
<1>1. PICK clip \in Clips : clip = turn[jobs[j].turn].clip
  BY WorkingJob
<1>2. /\ Arrive("diarize", NoSpeaker, NoInvite, clip)
      /\ jobs' = [jobs EXCEPT ![j].call = arrived + 1]
      /\ UNCHANGED <<turn, stt, pool, textOutput, conn>> /\ opens' = opens
  BY <1>1 DEF DiarizeCalls
<1>3. Asks("diarize", NoSpeaker, NoInvite, clip)
  BY <1>1 DEF Asks, AsyncOps, Embeds, Questions, InviteOps
<1>4. VInv' /\ Grows /\ arrived + 1 \in Requests
  BY <1>2, <1>3, ArriveVoices DEF NInv
<1>5. PICK job \in Announced : job = jobs[j]
  BY WorkingJob
<1>6. PICK called : called = [job EXCEPT !.call = arrived + 1]
  OBVIOUS
<1>7. called \in Job /\ called \in Announced
  <2>1. arrived + 1 \in 0..MaxRequests
    BY <1>4, LoadsKnown DEF Requests
  <2>2. called \in Job /\ called.turn = job.turn /\ called.item = job.item
    BY <1>5, <1>6, <2>1 DEF Announced, Job
  <2> QED  BY <1>5, <2>2 DEF Announced
<1>8. jobs' = [jobs EXCEPT ![j] = called]
  BY <1>2, <1>5, <1>6
<1>9. jobs' \in Seq(Job) /\ jobs' \in Seq(Announced)
  BY <1>7, <1>8, Quietly, WorkingJob
<1> QED  BY <1>2, <1>4, <1>9, Quietly, TurnsStay DEF NInv

\* A correction is not a transcript.
LEMMA DiarizeReturnsStep ==
  ASSUME NInv, VInv', Grows, NEW j \in Working, DiarizeReturns(j)
  PROVE  SessOK'
<1>1. PICK job \in Job : job = jobs[j]
  BY WorkingJob
<1>2. PICK e : e = [kind |-> "transcription_corrected", turn |-> job.turn,
                    item |-> job.item, call |-> job.call]
  OBVIOUS
<1>3. /\ textOutput' \in {textOutput, Append(textOutput, e)} /\ jobs' = RemoveAt(jobs, j)
      /\ UNCHANGED <<turn, stt, pool, conn>> /\ opens' = opens
  BY <1>1, <1>2 DEF DiarizeReturns
<1>4. e \in Event /\ ~Heralds(e)
  BY <1>1, <1>2 DEF Event, Heralds, Job
<1>5. textOutput' \in Seq(Event) /\ Orderly(textOutput', Transcribed)
  BY <1>3, <1>4, Quietly, OrderlyAppend
<1>6. jobs' \in Seq(Job) /\ jobs' \in Seq(Announced)
  BY <1>3, Quietly, WorkingJob, Removed
<1> QED  BY <1>3, <1>5, <1>6, Quietly, TurnsStay

\* The service goes on, whoever calls it.
LEMMA ServiceStep ==
  ASSUME NInv, VInv', Grows, UNCHANGED session
  PROVE  NInv'
BY Quietly, TurnsStay DEF session, NInv

LEMMA SessionStep ==
  ASSUME NInv, SessionNext
  PROVE  NInv'
<1>1. CASE IdentifyCalls
  BY <1>1, IdentifyCallsStep
<1>2. ASSUME NEW j \in Working, DiarizeCalls(j) PROVE NInv'
  BY <1>2, DiarizeCallsStep
<1>3. ASSUME UNCHANGED service,
             \/ \E u \in Turns : Speak(u)
             \/ SttTake \/ SttPosted \/ SttJoin \/ IdentifyReturns
             \/ OnSpeechStarted \/ OnTranscriptionCompleted \/ OnTranscriptionCorrected
             \/ OpenResponse \/ FinishResponse \/ \E j \in Working : DiarizeReturns(j)
      PROVE  NInv'
  <2>1. VInv' /\ Grows
    BY <1>3, IdleVoices DEF NInv
  <2> QED  BY <1>3, <2>1, SpeakStep, SttTakeStep, SttPostedStep, SttJoinStep, IdentifyReturnsStep,
              OnSpeechStartedStep, OnTranscriptionCompletedStep, ResponseSteps,
              DiarizeReturnsStep DEF NInv
<1>4. \/ \E u \in Turns : Speak(u)
      \/ SttTake \/ SttPosted \/ SttJoin \/ IdentifyReturns
      \/ OnSpeechStarted \/ OnTranscriptionCompleted \/ OnTranscriptionCorrected
      \/ OpenResponse \/ FinishResponse \/ \E j \in Working : DiarizeReturns(j)
      => UNCHANGED service
  BY DEF Speak, SttTake, SttPosted, SttJoin, IdentifyReturns, OnSpeechStarted,
         OnTranscriptionCompleted, OnTranscriptionCorrected, OpenResponse,
         FinishResponse, DiarizeReturns
<1> QED  BY <1>1, <1>2, <1>3, <1>4 DEF SessionNext

LEMMA NamesStep ==
  ASSUME NInv, [Next]_vars
  PROVE  NInv'
<1>1. CASE ServiceNext /\ UNCHANGED session
  BY <1>1, ServiceVoices, ServiceStep DEF NInv
<1>2. CASE UNCHANGED vars
  BY <1>2, IdleVoices, ServiceStep DEF NInv, vars
<1> QED  BY <1>1, <1>2, SessionStep DEF Next

LEMMA NamesInitially ==
  ASSUME NEW stored, StoredSound(stored), StoredTyped(stored), Init(stored)
  PROVE  NInv
<1>1. VInv
  BY InitialVoices DEF Init
<1>2. /\ turn = [u \in Turns |-> NoTurn] /\ pool = << >> /\ jobs = << >> /\ textOutput = << >>
      /\ conn = [item |-> 0, responding |-> FALSE, next |-> 1] /\ opens = 0
      /\ stt = [pc |-> "idle", turn |-> 0]
  BY DEF Init, InitSession, NoItem
<1>3. SessionTyped
  <2>1. NoTurn \in TurnRecord
    BY <1>1, LoadsKnown DEF NoTurn, TurnRecord, None, Label, NoItem, NoCall, VInv
  <2>2. turn \in [Turns -> TurnRecord]
    BY <1>2, <2>1
  <2>3. stt \in [pc : {"idle", "post", "join"}, turn : 0..MaxTurns]
    BY <1>2, TurnsAssumption
  <2> QED  BY <1>2, <2>2, <2>3 DEF SessionTyped, Conn
<1>4. Staged
  <2>1. \A u \in Turns : turn[u].stage = "silent" /\ turn[u].call = NoCall
    BY <1>2 DEF NoTurn
  <2>2. << >> \in Seq(Uttered) /\ << >> \in Seq(Announced)
    OBVIOUS
  <2>3. Orderly(<< >>, Transcribed)
    BY DEF Orderly
  <2> QED  BY <1>2, <2>1, <2>2, <2>3 DEF Staged
<1>5. \A u \in Turns : OwnCall(u)
  BY <1>2 DEF NoTurn, OwnCall, OwnLabel, None
<1> QED  BY <1>1, <1>3, <1>4, <1>5 DEF NInv, SessOK

LEMMA NamesFollow ==
  ASSUME NInv
  PROVE  NamesFit
<1>1. TypeOK
  <2>1. ServiceTypeOK
    BY ServiceTyped DEF NInv, VInv
  <2> QED  BY <2>1 DEF NInv, SessOK, SessionTyped, TypeOK, TurnRecord, Job, Conn
<1>2. NamedForOwnVoice
  BY DEF NInv, VInv, Matched, NamedForOwnVoice
<1>3. LabelOfOwnTurn
  BY DEF NInv, SessOK, OwnCall, OwnLabel, LabelOfOwnTurn
<1>4. CorrectionOfAnnouncedItem
  <2> SUFFICES ASSUME NEW j \in DOMAIN jobs PROVE jobs[j].item = turn[jobs[j].turn].completed
    BY DEF CorrectionOfAnnouncedItem
  <2>1. jobs[j] \in Announced
    BY Quietly
  <2> QED  BY <2>1 DEF Announced
<1> QED  BY <1>1, <1>2, <1>3, <1>4 DEF NamesFit

\* On any database and under any workload: a caller that no deletion has torn
\* is told of a speaker only for a voice enrolled under that id, a transcript
\* carries the label of its own turn, and a correction is for the item its
\* transcript was announced under.
THEOREM Names ==
  ASSUME NEW stored, StoredSound(stored), StoredTyped(stored)
  PROVE  Init(stored) /\ [][Next]_vars => []NamesFit
<1>1. Init(stored) => NInv
  BY NamesInitially
<1>2. NInv /\ [Next]_vars => NInv'
  BY NamesStep
<1>3. NInv => NamesFit
  BY NamesFollow
<1> QED  BY <1>1, <1>2, <1>3, PTL

-----------------------------------------------------------------------------
(* What a link has counted. *)

\* What a link has recorded, counted or not.
ByLink(i) == {e \in rows : e.via = i}
Balanced(i) ==
  Cardinality(ByLink(i)) = invites[i].samples + Cardinality(Uncounted(i)) + past.uncounted[i]

LinkOK(i) ==
  /\ past.uncounted[i] \in Nat
  /\ invites[i].state = "unused" => ByLink(i) = {} /\ past.uncounted[i] = 0
  /\ Live(i) => Balanced(i) /\ \A e \in ByLink(i) : e.id = invites[i].id

\* What a request knows of its link.
LinkKnown(r) ==
  /\ req[r].inv \in Invites => invites[req[r].inv].state # "unused"
  /\ req[r].op = "invite_sample" /\ req[r].pc \in {"read", "insert"} /\ Live(req[r].inv) =>
       req[r].id = invites[req[r].inv].id

CInv ==
  /\ SInv
  /\ past.uncounted = [i \in Invites |-> past.uncounted[i]]
  /\ \A i \in Invites : LinkOK(i)
  /\ \A r \in Requests : LinkKnown(r)

\* The request has recorded a sample that is still to be counted.
Used(r) == req[r].op = "invite_sample" /\ req[r].pc \in {"ids", "mat", "touch"}

\* A step in which r comes to know of no other link, or of no other speaker.
Knows(r) ==
  /\ req'[r].inv = req[r].inv \/ (req'[r].inv \in Invites => req'[r].inv \in Given)
  /\ req'[r].op = "invite_sample" /\ req'[r].pc \in {"read", "insert"} =>
       /\ req'[r].inv = req[r].inv
       /\ \/ req[r].op = "invite_sample" /\ req[r].pc \in {"read", "insert"} /\ req'[r].id = req[r].id
          \/ req'[r].id = invites[req[r].inv].id

\* A step in which r records no sample and counts none.
Uses(r) == (Used(r)' <=> Used(r)) /\ (Used(r) => req'[r].inv = req[r].inv)

\* A link keeps its speaker until it is gone.
LinksMove ==
  \A i \in Invites : \/ invites[i].state = "unused" \/ invites'[i].state = "gone"
                     \/ invites'[i].state = invites[i].state /\ invites'[i].id = invites[i].id

LinksStay ==
  \A i \in Invites : /\ invites'[i].state = invites[i].state /\ invites'[i].id = invites[i].id
                     /\ invites'[i].samples = invites[i].samples

LEMMA KnownKept ==
  ASSUME CInv, SInv', LinksMove, \A r \in Requests : Knows(r)
  PROVE  \A r \in Requests : LinkKnown(r)'
<1> TAKE r \in Requests
<1>1. LinkKnown(r) /\ Knows(r)
  BY DEF CInv
<1>2. ASSUME req'[r].inv \in Invites PROVE invites'[req'[r].inv].state # "unused"
  <2>1. invites[req'[r].inv].state # "unused"
    BY <1>1, <1>2 DEF LinkKnown, Knows, Given
  <2> QED  BY <1>2, <2>1 DEF LinksMove
<1>3. ASSUME req'[r].op = "invite_sample", req'[r].pc \in {"read", "insert"}, Live(req[r].inv)'
      PROVE  req'[r].id = invites'[req'[r].inv].id
  <2>1. PICK i : i = req[r].inv
    OBVIOUS
  <2>2. req'[r].inv = i /\ i \in Invites
    <3>1. Proper(req'[r])
      BY DEF SInv
    <3> QED  BY <1>1, <1>3, <2>1, <3>1 DEF Knows, Proper, InviteOps
  <2>3. invites[i].state # "unused" /\ invites'[i].state = "live"
    BY <1>1, <1>3, <2>1, <2>2 DEF LinkKnown, Live
  <2>4. Live(i) /\ invites'[i].id = invites[i].id
    BY <2>2, <2>3 DEF LinksMove, Live
  <2> QED  BY <1>1, <1>3, <2>1, <2>2, <2>4 DEF LinkKnown, Knows
<1> QED  BY <1>2, <1>3 DEF LinkKnown

LEMMA UncountedFinite ==
  ASSUME SInv
  PROVE  \A i : IsFiniteSet(Uncounted(i)) /\ Cardinality(Uncounted(i)) \in Nat
<1> TAKE i
<1>1. IsFiniteSet(Requests)
  BY LoadsKnown, FS_Interval DEF Requests
<1>2. Uncounted(i) \in SUBSET Requests
  BY DEF Uncounted
<1> QED  BY <1>1, <1>2, FS_Subset, FS_CardinalityType

LEMMA UncountedKept ==
  ASSUME \A r \in Requests : Uses(r)
  PROVE  \A i : Uncounted(i)' = Uncounted(i)
BY DEF Uncounted, Uses, Used

LEMMA ByLinkFinite ==
  ASSUME SInv
  PROVE  \A i : IsFiniteSet(ByLink(i)) /\ Cardinality(ByLink(i)) \in Nat
<1> TAKE i
<1>1. IsFiniteSet(rows) /\ ByLink(i) \in SUBSET rows
  BY DEF SInv, TablesOK, Keyed, ByLink
<1> QED  BY <1>1, FS_Subset, FS_CardinalityType

\* A step that records nothing and counts nothing.
LEMMA CountKept ==
  ASSUME CInv, SInv', \A r \in Requests : Knows(r) /\ Uses(r), LinksStay,
         rows' = rows, past'.uncounted = past.uncounted
  PROVE  CInv'
<1>1. \A r \in Requests : LinkKnown(r)'
  <2>1. LinksMove
    BY DEF LinksMove, LinksStay
  <2> QED  BY <2>1, KnownKept
<1>2. ASSUME NEW i \in Invites PROVE LinkOK(i)'
  <2>1. LinkOK(i)
    BY DEF CInv
  <2>2. Uncounted(i)' = Uncounted(i) /\ ByLink(i)' = ByLink(i)
    BY UncountedKept DEF ByLink
  <2>3. /\ invites'[i].state = invites[i].state /\ invites'[i].id = invites[i].id
        /\ invites'[i].samples = invites[i].samples
    BY DEF LinksStay
  <2> QED  BY <2>1, <2>2, <2>3 DEF LinkOK, Balanced, Live
<1> QED  BY <1>1, <1>2 DEF CInv

\* A step of r alone.
LEMMA CountQuiet ==
  ASSUME NEW r \in Requests, Quiet(r), Knows(r)
  PROVE  /\ \A q \in Requests : Knows(q)
         /\ Uses(r) => \A q \in Requests : Uses(q)
BY DEF Quiet, Knows, Uses, Used

LEMMA QuietCount ==
  ASSUME CInv, SInv', NEW r \in Requests, Quiet(r), Knows(r), Uses(r), LinksStay,
         rows' = rows, past'.uncounted = past.uncounted
  PROVE  CInv'
BY CountQuiet, CountKept

LEMMA ValidateCount ==
  ASSUME CInv, SInv', NEW r \in Requests, Validate(r)
  PROVE  CInv'
<1>1. UNCHANGED <<rows, invites, past>>
  BY DEF Validate, tables
<1>2. /\ Quiet(r) /\ req[r].pc = "arrived" /\ req'[r].pc \in {"answered", "write", "read"}
      /\ req[r].op = "invite_sample" /\ req'[r].pc = "read" => req'[r].id = invites[req[r].inv].id
  BY ValidateQuiet DEF CInv
<1>3. Knows(r) /\ Uses(r)
  BY <1>2 DEF Knows, Uses, Used, Quiet
<1> QED  BY <1>1, <1>2, <1>3, QuietCount DEF LinksStay

LEMMA EmbedCount ==
  ASSUME CInv, SInv', NEW r \in Requests, Embed(r)
  PROVE  CInv'
<1>1. UNCHANGED <<rows, invites, past>>
  BY DEF Embed, tables
<1>2. /\ Quiet(r) /\ req[r].pc = "read" /\ req'[r].pc \in {"answered", "match", "insert"}
      /\ req'[r].pc = "insert" => req'[r].id = req[r].id
  BY EmbedQuiet DEF CInv
<1>3. Knows(r) /\ Uses(r)
  BY <1>2 DEF Knows, Uses, Used, Quiet
<1> QED  BY <1>1, <1>2, <1>3, QuietCount DEF LinksStay

\* A query is not made by a link's sample.
LEMMA QueryCount ==
  ASSUME CInv, SInv', NEW r \in Requests, QueryMat(r) \/ QueryZip(r)
  PROVE  CInv'
<1>1. UNCHANGED <<rows, invites, past>>
  BY DEF QueryMat, QueryZip, tables
<1>2. req[r].op # "invite_sample"
  <2>1. Proper(req[r]) /\ req[r].pc \in {"match", "zip"}
    BY DEF CInv, SInv, QueryMat, QueryZip
  <2> QED  BY <2>1, SMTT(30) DEF Proper, Questions
<1>3. /\ \A q \in Requests \ {r} : req'[q] = req[q]
      /\ req'[r].op = req[r].op /\ req'[r].inv = req[r].inv
  <2>1. ReqShaped
    BY DEF CInv, SInv, IInv, Shaped
  <2>2. CASE QueryMat(r)
    <3> DEFINE mat  == IF mirror.ids = << >> THEN << >> ELSE mirror.mat
               torn == req[r].torn \/ \E d \in Requests : req[d].op = "delete" /\ req[d].pc = "mat"
    <3>1. req' = [req EXCEPT ![r].pc = "zip", ![r].mat = mat, ![r].torn = torn]
      BY <2>2 DEF QueryMat
    <3> HIDE DEF mat, torn
    <3>2. Wrote(r, "zip", req[r].id, mat, req[r].verdicts, torn, req[r].status)
      BY <2>1, <3>1, Writes
    <3> QED  BY <3>2 DEF Wrote, Edits
  <2>3. CASE QueryZip(r)
    <3> DEFINE k == Len(req[r].verdicts) + 1
               last == req[r].op # "diarize" \/ k = Len(req[r].clip)
    <3>1. PICK v : req' = [req EXCEPT ![r].verdicts = Append(@, v), ![r].mat = << >>,
                                      ![r].pc = IF last THEN "answered" ELSE "match",
                                      ![r].status = IF last THEN 200 ELSE 0]
      BY <2>3 DEF QueryZip
    <3> DEFINE verdicts == Append(req[r].verdicts, v)
               pc == IF last THEN "answered" ELSE "match"
               status == IF last THEN 200 ELSE 0
    <3>2. req' = [req EXCEPT ![r].verdicts = verdicts, ![r].mat = << >>, ![r].pc = pc,
                             ![r].status = status]
      BY <3>1
    <3> HIDE DEF verdicts, pc, status
    <3>3. Wrote(r, pc, req[r].id, << >>, verdicts, req[r].torn, status)
      BY <2>1, <3>2, Writes
    <3> QED  BY <3>3, SMTT(30) DEF Wrote, Edits
  <2> QED  BY <2>2, <2>3
<1>4. \A q \in Requests : Knows(q) /\ Uses(q)
  BY <1>2, <1>3 DEF Knows, Uses, Used
<1> QED  BY <1>1, <1>4, CountKept, SMTT(30) DEF LinksStay

\* Reloading, a sample stays uncounted.
LEMMA ReloadCount ==
  ASSUME CInv, SInv', NEW r \in Requests, ReloadIds(r) \/ ReloadMat(r)
  PROVE  CInv'
<1>1. UNCHANGED <<rows, invites, past>>
  BY DEF ReloadIds, ReloadMat, tables
<1>2. /\ req[r].pc \in {"ids", "mat"} /\ req'[r].pc \in {"mat", "touch", "answered"}
      /\ req'[r].op = req[r].op /\ req'[r].inv = req[r].inv
      /\ req[r].op = "invite_sample" => req'[r].pc # "answered"
      /\ \A q \in Requests \ {r} :
           /\ req'[q].op = req[q].op /\ req'[q].inv = req[q].inv /\ req'[q].pc = req[q].pc
           /\ req'[q].id = req[q].id
  <2>1. ReqShaped
    BY DEF CInv, SInv, IInv, Shaped
  <2>2. CASE ReloadIds(r)
    <3>1. Reloads(r, {"zip"}, "mat", req[r].status) /\ req[r].pc = "ids"
      BY <2>1, <2>2, ReloadWrites DEF ReloadIds
    <3> QED  BY <3>1 DEF Reloads, TornBy, Torn, Edits
  <2>3. CASE ReloadMat(r) /\ req[r].op = "invite_sample"
    <3>1. req' = [req EXCEPT ![r].pc = "touch"] /\ req[r].pc = "mat"
      BY <2>3 DEF ReloadMat
    <3>2. Wrote(r, "touch", req[r].id, req[r].mat, req[r].verdicts, req[r].torn, req[r].status)
      BY <2>1, <3>1, Writes
    <3> QED  BY <3>1, <3>2 DEF Wrote, Edits
  <2>4. CASE ReloadMat(r) /\ req[r].op # "invite_sample"
    <3>1. PICK status :
            req' = [Tears(r, {"zip"}) EXCEPT ![r].pc = "answered", ![r].status = status]
      BY <2>4 DEF ReloadMat
    <3>2. Reloads(r, {"zip"}, "answered", status) /\ req[r].pc = "mat"
      BY <2>1, <2>4, <3>1, ReloadWrites DEF ReloadMat
    <3> QED  BY <2>4, <3>2 DEF Reloads, TornBy, Torn, Edits
  <2> QED  BY <2>2, <2>3, <2>4
<1>3. \A q \in Requests : Knows(q) /\ Uses(q)
  BY <1>2 DEF Knows, Uses, Used
<1> QED  BY <1>1, <1>3, CountKept DEF LinksStay

LEMMA LinkFields ==
  ASSUME NEW link \in Invite
  PROVE  LET counted == [link EXCEPT !.samples = @ + 1]
             revoked == [link EXCEPT !.revoked = TRUE]
             expired == [link EXCEPT !.expired = TRUE]
             gone    == [link EXCEPT !.state = "gone"]
         IN /\ counted.state = link.state /\ counted.id = link.id
            /\ counted.samples = link.samples + 1 /\ link.samples \in Nat
            /\ revoked.state = link.state /\ revoked.id = link.id /\ revoked.samples = link.samples
            /\ expired.state = link.state /\ expired.id = link.id /\ expired.samples = link.samples
            /\ gone.state = "gone"
BY DEF Invite

\* Marking a link leaves its state and its count alone.
LEMMA MarkedStay ==
  ASSUME SInv, NEW i \in Invites,
         \/ invites' = invites
         \/ invites' = [invites EXCEPT ![i].revoked = TRUE]
         \/ invites' = [invites EXCEPT ![i].expired = TRUE]
  PROVE  LinksStay
<1>1. invites \in [Invites -> Invite]
  BY DEF SInv, TablesOK
<1>2. CASE invites' = [invites EXCEPT ![i].revoked = TRUE]
  <2>1. invites'[i] = [invites[i] EXCEPT !.revoked = TRUE] /\ \A j \in Invites \ {i} : invites'[j] = invites[j]
    BY <1>1, <1>2
  <2>2. invites[i] \in Invite
    BY <1>1
  <2>3. /\ invites'[i].state = invites[i].state /\ invites'[i].id = invites[i].id
        /\ invites'[i].samples = invites[i].samples
    BY <2>1, <2>2, LinkFields
  <2> QED  BY <2>1, <2>3 DEF LinksStay
<1>3. CASE invites' = [invites EXCEPT ![i].expired = TRUE]
  <2>1. invites'[i] = [invites[i] EXCEPT !.expired = TRUE] /\ \A j \in Invites \ {i} : invites'[j] = invites[j]
    BY <1>1, <1>3
  <2>2. invites[i] \in Invite
    BY <1>1
  <2>3. /\ invites'[i].state = invites[i].state /\ invites'[i].id = invites[i].id
        /\ invites'[i].samples = invites[i].samples
    BY <2>1, <2>2, LinkFields
  <2> QED  BY <2>1, <2>3 DEF LinksStay
<1> QED  BY <1>2, <1>3 DEF LinksStay

LEMMA RevokeCount ==
  ASSUME CInv, SInv', NEW r \in Requests,
         RevokeInvite(r) \/ CreateSpeaker(r) \/ SetConsent(r) \/ FindSpeaker(r)
  PROVE  CInv'
<1>1. /\ Quiet(r) /\ req'[r].pc \in {"answered", "write"}
      /\ rows' = rows /\ past'.uncounted = past.uncounted
      /\ req[r].op # "invite_sample"
  <2>1. req[r].pc # "touch"
    BY DEF RevokeInvite, CreateSpeaker, SetConsent, FindSpeaker, At
  <2> QED  BY <2>1, OthersQuiet DEF CInv
<1>2. Knows(r) /\ Uses(r)
  BY <1>1 DEF Knows, Uses, Used, Quiet
<1>3. LinksStay
  <2>1. CASE RevokeInvite(r)
    <3>1. req[r].inv \in Invites
      BY <2>1 DEF CInv, SInv, Proper, RevokeInvite, At
    <3>2. invites' = invites \/ invites' = [invites EXCEPT ![req[r].inv].revoked = TRUE]
      BY <2>1 DEF RevokeInvite
    <3> QED  BY <3>1, <3>2, MarkedStay DEF CInv
  <2>2. CASE CreateSpeaker(r) \/ SetConsent(r) \/ FindSpeaker(r)
    BY <2>2 DEF CreateSpeaker, SetConsent, FindSpeaker, LinksStay
  <2> QED  BY <2>1, <2>2
<1> QED  BY <1>1, <1>2, <1>3, QuietCount

\* What a link has recorded is counted once.
LEMMA TouchCount ==
  ASSUME CInv, SInv', NEW r \in Requests, TouchInvite(r)
  PROVE  CInv'
<1>1. PICK i : i = req[r].inv
  OBVIOUS
<1>2. /\ Quiet(r) /\ req'[r].pc \in {"answered", "write"} /\ req[r].pc = "touch"
      /\ rows' = rows /\ past'.uncounted = past.uncounted
      /\ req[r].op = "invite_sample"
  <2>1. req[r].pc = "touch"
    BY DEF TouchInvite
  <2> QED  BY <2>1, OthersQuiet DEF CInv
<1>3. i \in Invites
  BY <1>1, <1>2 DEF CInv, SInv, Proper, InviteOps
<1>4. invites' = IF Live(i) THEN [invites EXCEPT ![i].samples = @ + 1] ELSE invites
  BY <1>1 DEF TouchInvite, Counted
<1>5. invites \in [Invites -> Invite]
  BY DEF CInv, SInv, TablesOK
<1>6. /\ \A j \in Invites \ {i} : invites'[j] = invites[j]
      /\ invites'[i].state = invites[i].state /\ invites'[i].id = invites[i].id
      /\ Live(i) => invites'[i].samples = invites[i].samples + 1 /\ invites[i].samples \in Nat
  <2>1. CASE Live(i)
    <3>1. /\ invites'[i] = [invites[i] EXCEPT !.samples = @ + 1]
          /\ \A j \in Invites \ {i} : invites'[j] = invites[j]
      BY <1>3, <1>4, <1>5, <2>1
    <3> QED  BY <1>3, <1>5, <3>1, LinkFields
  <2> QED  BY <1>4, <2>1
<1>7. Used(r) /\ ~Used(r)' /\ \A q \in Requests \ {r} : req'[q] = req[q]
  BY <1>2 DEF Used, Quiet
<1>8. \A q \in Requests : LinkKnown(q)'
  <2>1. Knows(r)
    BY <1>2 DEF Knows, Quiet
  <2>2. LinksMove
    BY <1>6 DEF LinksMove
  <2> QED  BY <1>2, <2>1, <2>2, CountQuiet, KnownKept
<1>9. ASSUME NEW j \in Invites PROVE LinkOK(j)'
  <2>1. LinkOK(j) /\ ByLink(j)' = ByLink(j)
    BY <1>2 DEF CInv, ByLink
  <2>2. CASE j # i
    <3>1. Uncounted(j)' = Uncounted(j)
      BY <1>1, <1>2, <1>7, <2>2 DEF Uncounted, Used, Quiet
    <3> QED  BY <1>2, <1>6, <2>1, <2>2, <3>1 DEF LinkOK, Balanced, Live
  <2>3. CASE j = i
    <3>1. Uncounted(i)' = Uncounted(i) \ {r} /\ r \in Uncounted(i)
      BY <1>1, <1>7 DEF Uncounted, Used
    <3>2. Cardinality(Uncounted(i)') = Cardinality(Uncounted(i)) - 1 /\ Cardinality(Uncounted(i)) \in Nat
      BY <3>1, UncountedFinite, FS_RemoveElement DEF CInv
    <3>3. Live(i) => Balanced(i)'
      BY <1>2, <1>6, <2>1, <2>3, <3>2, ByLinkFinite DEF LinkOK, Balanced, CInv
    <3> QED  BY <1>2, <1>6, <2>1, <2>3, <3>3 DEF LinkOK, Live
  <2> QED  BY <2>2, <2>3
<1> QED  BY <1>2, <1>8, <1>9 DEF CInv

\* A sample a link records is one more that it has to count.
LEMMA InsertCount ==
  ASSUME CInv, SInv', NEW r \in Requests, Insert(r)
  PROVE  CInv'
<1>1. PICK i : i = req[r].inv
  OBVIOUS
<1>2. PICK e : e = Row(r)
  OBVIOUS
<1>3. /\ Quiet(r) /\ req[r].op \in Embeds /\ req[r].pc = "insert"
      /\ IF fk /\ req[r].id \notin profiles
         THEN req'[r].pc = "answered" /\ UNCHANGED <<rows, past>>
         ELSE /\ req'[r].pc = "ids" /\ rows' = rows \cup {e}
              /\ past'.uncounted = past.uncounted
  <2>1. past'.uncounted = past.uncounted
    BY DEF CInv, SInv, IInv, Shaped, Insert
  <2>2. req[r].pc = "insert"
    BY DEF Insert
  <2> QED  BY <1>2, <2>1, <2>2, InsertQuiet DEF CInv
<1>4. LinksStay
  BY DEF Insert, LinksStay
<1>5. Knows(r)
  BY <1>3 DEF Knows, Quiet
<1>6. CASE fk /\ req[r].id \notin profiles
  <2>1. Uses(r)
    BY <1>3, <1>6 DEF Uses, Used
  <2> QED  BY <1>3, <1>4, <1>5, <1>6, <2>1, QuietCount
<1>7. CASE ~(fk /\ req[r].id \notin profiles) /\ req[r].op = "sample"
  <2>1. Uses(r)
    BY <1>3, <1>7 DEF Uses, Used, Quiet
  <2>2. \A q \in Requests : Uses(q) /\ Knows(q)
    BY <1>3, <1>5, <2>1, CountQuiet
  <2>3. e.via = NoInvite
    BY <1>2, <1>7 DEF Row
  <2>4. \A j \in Invites : ByLink(j)' = ByLink(j)
    BY <1>3, <1>7, <2>3, NamesAssumption DEF ByLink
  <2>5. \A q \in Requests : LinkKnown(q)'
    BY <1>4, <2>2, KnownKept DEF LinksMove, LinksStay
  <2>6. ASSUME NEW j \in Invites PROVE LinkOK(j)'
    <3>1. LinkOK(j) /\ Uncounted(j)' = Uncounted(j)
      BY <2>2, UncountedKept DEF CInv
    <3> QED  BY <1>3, <1>4, <1>7, <2>4, <3>1 DEF LinkOK, Balanced, Live, LinksStay
  <2> QED  BY <1>3, <1>7, <2>5, <2>6 DEF CInv
<1>8. CASE ~(fk /\ req[r].id \notin profiles) /\ req[r].op = "invite_sample"
  <2>1. i \in Invites /\ invites[i].state # "unused" /\ (Live(i) => req[r].id = invites[i].id)
    BY <1>1, <1>3, <1>8 DEF CInv, SInv, Proper, InviteOps, LinkKnown
  <2>2. e.via = i /\ e.id = req[r].id
    BY <1>1, <1>2, <1>8 DEF Row
  <2>3. e \notin rows
    BY <1>2, <1>3, RowTyped DEF CInv
  <2>4. \A q \in Requests : LinkKnown(q)'
    BY <1>3, <1>4, <1>5, CountQuiet, KnownKept DEF LinksMove, LinksStay
  <2>5. /\ ~Used(r) /\ Used(r)' /\ req'[r].inv = i
        /\ \A q \in Requests \ {r} : req'[q] = req[q]
    BY <1>1, <1>3, <1>8 DEF Used, Quiet
  <2>6. ASSUME NEW j \in Invites PROVE LinkOK(j)'
    <3>1. LinkOK(j)
      BY DEF CInv
    <3>2. CASE j # i
      <4>1. ByLink(j)' = ByLink(j)
        BY <1>3, <1>8, <2>2, <3>2 DEF ByLink
      <4>2. Uncounted(j)' = Uncounted(j)
        BY <1>1, <2>5, <3>2 DEF Uncounted, Used
      <4> QED  BY <1>3, <1>4, <1>8, <3>1, <4>1, <4>2 DEF LinkOK, Balanced, Live, LinksStay
    <3>3. CASE j = i
      <4>1. ByLink(i)' = ByLink(i) \cup {e} /\ e \notin ByLink(i)
        BY <1>3, <1>8, <2>2, <2>3 DEF ByLink
      <4>2. Uncounted(i)' = Uncounted(i) \cup {r} /\ r \notin Uncounted(i)
        BY <2>5 DEF Uncounted, Used
      <4>3. /\ Cardinality(ByLink(i)') = Cardinality(ByLink(i)) + 1
            /\ Cardinality(Uncounted(i)') = Cardinality(Uncounted(i)) + 1
            /\ Cardinality(ByLink(i)) \in Nat /\ Cardinality(Uncounted(i)) \in Nat
        BY <4>1, <4>2, UncountedFinite, ByLinkFinite, FS_AddElement DEF CInv
      <4>4. /\ invites'[i].state = invites[i].state /\ invites'[i].id = invites[i].id
            /\ invites'[i].samples = invites[i].samples /\ past'.uncounted = past.uncounted
        BY <1>3, <1>4, <1>8, <2>1 DEF LinksStay
      <4>5. invites[i].samples \in Nat /\ past.uncounted[i] \in Nat
        BY <2>1, <3>1, <3>3 DEF CInv, SInv, TablesOK, Invite, LinkOK
      <4>6. Live(i) => Balanced(i)'
        BY <3>1, <3>3, <4>3, <4>4, <4>5 DEF LinkOK, Balanced
      <4> QED  BY <2>1, <2>2, <3>1, <3>3, <4>1, <4>4, <4>6 DEF LinkOK, Live
    <3> QED  BY <3>2, <3>3
  <2> QED  BY <1>3, <1>8, <2>4, <2>6 DEF CInv
<1> QED  BY <1>3, <1>6, <1>7, <1>8 DEF Embeds

\* A deletion takes the rows of its links together with them, and of no other.
LEMMA DeleteCount ==
  ASSUME CInv, SInv', NEW r \in Requests, DeleteSpeaker(r)
  PROVE  CInv'
<1>1. PICK id : id = req[r].id
  OBVIOUS
<1>2. /\ rows' = {e \in rows : e.id # id} /\ past' = past
      /\ invites' = [i \in Invites |->
           IF Live(i) /\ invites[i].id = id THEN [invites[i] EXCEPT !.state = "gone"]
           ELSE invites[i]]
  BY <1>1 DEF DeleteSpeaker
<1>3. \A i \in Invites : IF Live(i) /\ invites[i].id = id THEN invites'[i].state = "gone"
                         ELSE invites'[i] = invites[i]
  <2> TAKE i \in Invites
  <2>1. [invites[i] EXCEPT !.state = "gone"].state = "gone"
    BY LinkFields DEF CInv, SInv, TablesOK
  <2> QED  BY <1>2, <2>1
<1>4. Quiet(r) /\ req[r].op = "delete"
  BY DeleteQuiet DEF CInv
<1>5. Knows(r) /\ Uses(r)
  BY <1>4 DEF Knows, Uses, Used, Quiet
<1>6. \A q \in Requests : Knows(q) /\ Uses(q)
  BY <1>4, <1>5, CountQuiet
<1>7. \A q \in Requests : LinkKnown(q)'
  BY <1>3, <1>6, KnownKept DEF LinksMove
<1>8. ASSUME NEW i \in Invites PROVE LinkOK(i)'
  <2>1. LinkOK(i) /\ Uncounted(i)' = Uncounted(i)
    BY <1>6, UncountedKept DEF CInv
  <2>2. ByLink(i)' \subseteq ByLink(i)
    BY <1>2 DEF ByLink
  <2>3. CASE Live(i) /\ invites[i].id = id
    BY <1>2, <1>3, <2>1, <2>3 DEF LinkOK, Live
  <2>4. CASE ~(Live(i) /\ invites[i].id = id)
    <3>1. invites'[i] = invites[i]
      BY <1>3, <2>4
    <3>2. Live(i) => ByLink(i)' = ByLink(i)
      BY <1>2, <2>1, <2>4 DEF LinkOK, ByLink
    <3> QED  BY <1>2, <2>1, <2>2, <3>1, <3>2 DEF LinkOK, Balanced, Live
  <2> QED  BY <2>3, <2>4
<1> QED  BY <1>2, <1>7, <1>8 DEF CInv

\* A link given out has recorded nothing.
LEMMA AddInviteCount ==
  ASSUME CInv, SInv', NEW r \in Requests, AddInvite(r)
  PROVE  CInv'
<1>1. /\ Quiet(r) /\ req'[r].pc \in {"answered", "write"} /\ rows' = rows
      /\ past'.uncounted = past.uncounted /\ req[r].op # "invite_sample"
  <2>1. req[r].pc # "touch"
    BY DEF AddInvite, At
  <2> QED  BY <2>1, OthersQuiet DEF CInv
<1>2. Knows(r) /\ Uses(r)
  BY <1>1 DEF Knows, Uses, Used, Quiet
<1>3. CASE invites' = invites
  BY <1>1, <1>2, <1>3, QuietCount DEF LinksStay
<1>4. ASSUME NEW i \in Invites, invites[i].state = "unused",
             NEW new, new = [state |-> "live", id |-> req[r].id, revoked |-> FALSE,
                             expired |-> FALSE, samples |-> 0],
             invites' = [invites EXCEPT ![i] = new]
      PROVE  CInv'
  <2>1. invites'[i] = new /\ \A j \in Invites \ {i} : invites'[j] = invites[j]
    BY <1>4 DEF CInv, SInv, TablesOK
  <2>2. new.state = "live" /\ new.samples = 0
    BY <1>4
  <2>3. \A q \in Requests : Knows(q) /\ Uses(q)
    BY <1>1, <1>2, CountQuiet
  <2>4. \A q \in Requests : LinkKnown(q)'
    BY <1>4, <2>1, <2>3, KnownKept DEF LinksMove
  <2>5. ASSUME NEW j \in Invites PROVE LinkOK(j)'
    <3>1. LinkOK(j) /\ Uncounted(j)' = Uncounted(j) /\ ByLink(j)' = ByLink(j)
      BY <1>1, <2>3, UncountedKept DEF CInv, ByLink
    <3>2. CASE j # i
      BY <1>1, <2>1, <3>1, <3>2 DEF LinkOK, Balanced, Live
    <3>3. CASE j = i
      <4>1. ByLink(i) = {} /\ past.uncounted[i] = 0
        BY <1>4, <3>1, <3>3 DEF LinkOK
      <4>2. Uncounted(i) = {}
        BY <1>4 DEF CInv, LinkKnown, Uncounted
      <4> QED  BY <1>1, <2>1, <2>2, <3>1, <3>3, <4>1, <4>2, FS_EmptySet
               DEF LinkOK, Balanced, Live
    <3> QED  BY <3>2, <3>3
  <2> QED  BY <1>1, <2>4, <2>5 DEF CInv
<1> QED  BY <1>3, <1>4 DEF AddInvite

LEMMA ExpireCount ==
  ASSUME CInv, SInv', NEW i \in Invites, Expire(i)
  PROVE  CInv'
<1>1. /\ UNCHANGED <<rows, req, past>>
      /\ invites' = [invites EXCEPT ![i].expired = TRUE]
  BY DEF Expire
<1>2. LinksStay
  BY <1>1, MarkedStay DEF CInv
<1>3. \A q \in Requests : Knows(q) /\ Uses(q)
  BY <1>1 DEF Knows, Uses, Used
<1> QED  BY <1>1, <1>2, <1>3, CountKept

LEMMA ArriveCount ==
  ASSUME CInv, NEW op, NEW id, NEW inv, NEW clip, Arrive(op, id, inv, clip),
         Asks(op, id, inv, clip), inv \in Given \cup {NoInvite}
  PROVE  CInv'
<1>1. PICK n : n = New(op, id, inv, clip)
  OBVIOUS
<1>2. PICK r \in Requests : Arrived(r, n)
  <2>1. Arrived(arrived + 1, n)
    BY <1>1, ArriveIs DEF CInv
  <2> QED  BY <2>1 DEF Arrived
<1>3. IsNew(n, op, id, inv, clip)
  BY <1>1, NewFields
<1>4. /\ req[r].pc = "free" /\ req'[r].op = op /\ req'[r].inv = inv
      /\ req'[r].pc = (IF op \in Questions THEN "read" ELSE "arrived")
      /\ \A q \in Requests \ {r} : req'[q] = req[q]
      /\ UNCHANGED <<rows, invites, past>>
  BY <1>2, <1>3 DEF Arrived, IsNew, tables
<1>5. Knows(r) /\ Uses(r)
  BY <1>4, NamesAssumption DEF Knows, Uses, Used, Questions
<1>6. \A q \in Requests : Knows(q) /\ Uses(q)
  BY <1>4, <1>5 DEF Knows, Uses, Used
<1>7. SInv'
  BY ArriveTyped DEF CInv
<1> QED  BY <1>4, <1>6, <1>7, CountKept DEF LinksStay

\* What a restart keeps from being counted is remembered as such.
LEMMA RestartCount ==
  ASSUME CInv, Restart
  PROVE  CInv'
<1>1. SInv'
  BY RestartTyped DEF CInv
<1>2. /\ UNCHANGED <<rows, invites>>
      /\ \A r \in Requests : IF Pending(r) THEN Lost(req'[r], req[r]) ELSE req'[r] = req[r]
  BY RestartIs DEF CInv, tables
<1>3. past'.uncounted = [i \in Invites |->
        past.uncounted[i] + IF Live(i) THEN Cardinality(Uncounted(i)) ELSE 0]
  <2> DEFINE uncounted == [i \in Invites |->
               past.uncounted[i] + IF Live(i) THEN Cardinality(Uncounted(i)) ELSE 0]
  <2>1. past' = [past EXCEPT !.uncounted = uncounted]
    BY DEF Restart
  <2> HIDE DEF uncounted
  <2>2. past'.uncounted = uncounted
    BY <2>1 DEF CInv, SInv, IInv, Shaped
  <2> QED  BY <2>2 DEF uncounted
<1>4. \A r \in Requests :
        /\ req'[r].inv = req[r].inv /\ req'[r].op = req[r].op /\ ~Used(r)'
        /\ req'[r].pc \notin {"read", "insert"}
  <2> TAKE r \in Requests
  <2>1. CASE Pending(r)
    BY <1>2, <2>1 DEF Lost, Edits, Used
  <2>2. CASE ~Pending(r)
    BY <1>2, <2>2 DEF Pending, Used
  <2> QED  BY <2>1, <2>2
<1>5. \A r \in Requests : LinkKnown(r)'
  BY <1>2, <1>4 DEF CInv, LinkKnown
<1>6. ASSUME NEW i \in Invites PROVE LinkOK(i)'
  <2>1. LinkOK(i) /\ ByLink(i)' = ByLink(i) /\ (Live(i)' <=> Live(i))
    BY <1>2 DEF CInv, ByLink, Live
  <2>2. Uncounted(i)' = {}
    BY <1>4 DEF Uncounted, Used
  <2>3. Cardinality(Uncounted(i)') = 0 /\ Cardinality(Uncounted(i)) \in Nat
    BY <2>2, FS_EmptySet, UncountedFinite DEF CInv
  <2>4. past.uncounted[i] \in Nat /\ invites[i].samples \in Nat
    BY <2>1 DEF LinkOK, CInv, SInv, TablesOK, Invite
  <2>5. past'.uncounted[i] =
          past.uncounted[i] + IF Live(i) THEN Cardinality(Uncounted(i)) ELSE 0
    BY <1>3
  <2>6. Live(i) => Balanced(i)'
    BY <1>2, <2>1, <2>3, <2>4, <2>5 DEF LinkOK, Balanced
  <2>7. past'.uncounted[i] \in Nat /\ (~Live(i) => past'.uncounted[i] = past.uncounted[i])
    BY <2>3, <2>4, <2>5
  <2>8. invites[i].state = "unused" => ~Live(i)
    BY DEF Live
  <2> QED  BY <1>2, <2>1, <2>6, <2>7, <2>8 DEF LinkOK
<1>7. past'.uncounted = [i \in Invites |-> past'.uncounted[i]]
  BY <1>3
<1> QED  BY <1>1, <1>5, <1>6, <1>7 DEF CInv

LEMMA StillCount ==
  ASSUME CInv, SInv', UNCHANGED <<rows, invites, req, past>>
  PROVE  CInv'
<1>1. \A q \in Requests : Knows(q) /\ Uses(q)
  BY DEF Knows, Uses, Used
<1> QED  BY <1>1, CountKept DEF LinksStay

LEMMA ServiceCount ==
  ASSUME CInv, ServiceNext
  PROVE  CInv'
<1>1. ASSUME NEW op \in load.ops, Ask(op) PROVE CInv'
  <2>1. PICK id, inv, clip : /\ Arrive(op, id, inv, clip) /\ Asks(op, id, inv, clip)
                             /\ inv \in Given \cup {NoInvite}
    BY <1>1, AskArrives
  <2> QED  BY <2>1, ArriveCount
<1>2. ASSUME NEW r \in Requests, Serve(r) PROVE CInv'
  <2>1. SInv'
    BY <1>2, ServeTyped DEF CInv
  <2> QED  BY <1>2, <2>1, ValidateCount, EmbedCount, InsertCount, ReloadCount, TouchCount,
              RevokeCount, DeleteCount, AddInviteCount, QueryCount DEF Serve
<1>3. ASSUME NEW i \in Invites, Expire(i) PROVE CInv'
  BY <1>3, ExpireTyped, ExpireCount DEF CInv
<1> QED  BY <1>1, <1>2, <1>3, RestartCount DEF ServiceNext

\* The session asks about no link.
LEMMA CountStep ==
  ASSUME NInv, CInv, [Next]_vars
  PROVE  CInv'
<1>1. ASSUME UNCHANGED service PROVE CInv'
  BY <1>1, StaysTyped, StillCount DEF CInv, service, tables
<1>2. ASSUME NEW op \in Questions, NEW clip \in Clips, Arrive(op, NoSpeaker, NoInvite, clip)
      PROVE  CInv'
  <2>1. Asks(op, NoSpeaker, NoInvite, clip)
    BY DEF Asks, AsyncOps, Embeds, Questions, InviteOps
  <2> QED  BY <1>2, <2>1, ArriveCount
<1>3. CASE IdentifyCalls
  BY <1>2, <1>3, PoolHead DEF IdentifyCalls, Questions
<1>4. ASSUME NEW j \in Working, DiarizeCalls(j) PROVE CInv'
  BY <1>2, <1>4, WorkingJob DEF DiarizeCalls, Questions
<1>5. CASE \/ \E u \in Turns : Speak(u)
           \/ SttTake \/ SttPosted \/ SttJoin \/ IdentifyReturns
           \/ OnSpeechStarted \/ OnTranscriptionCompleted \/ OnTranscriptionCorrected
           \/ OpenResponse \/ FinishResponse \/ \E j \in Working : DiarizeReturns(j)
  <2>1. UNCHANGED service
    BY <1>5 DEF Speak, SttTake, SttPosted, SttJoin, IdentifyReturns, OnSpeechStarted,
                OnTranscriptionCompleted, OnTranscriptionCorrected, OpenResponse,
                FinishResponse, DiarizeReturns
  <2> QED  BY <1>1, <2>1
<1>6. CASE UNCHANGED vars
  BY <1>1, <1>6 DEF vars
<1> QED  BY <1>3, <1>4, <1>5, <1>6, ServiceCount DEF Next, SessionNext

LEMMA CountInitially ==
  ASSUME NEW stored, StoredSound(stored), StoredTyped(stored), StoredCounted(stored),
         InitService(stored)
  PROVE  CInv
<1>1. SInv
  BY InitiallyTyped
<1>2. /\ rows = stored.rows /\ invites = stored.invites
      /\ past.uncounted = [i \in Invites |->
           IF Live(i) THEN Cardinality(Left(stored, i)) - invites[i].samples ELSE 0]
      /\ \A r \in Requests : req[r].pc = "free" /\ req[r].inv = NoInvite
  BY DEF InitService, NoRequest
<1>3. \A r \in Requests : LinkKnown(r)
  BY <1>2, NamesAssumption DEF LinkKnown
<1>4. ASSUME NEW i \in Invites PROVE LinkOK(i)
  <2>1. Uncounted(i) = {}
    BY <1>2 DEF Uncounted
  <2>2. Cardinality(Uncounted(i)) = 0 /\ invites[i].samples \in Nat
    BY <1>1, <2>1, FS_EmptySet DEF SInv, TablesOK, Invite
  <2>3. ByLink(i) = Left(stored, i) /\ Cardinality(ByLink(i)) \in Nat
    BY <1>1, <1>2, ByLinkFinite DEF ByLink, Left
  <2>4. /\ invites[i].state = "unused" => ByLink(i) = {}
        /\ Live(i) => /\ invites[i].samples <= Cardinality(ByLink(i))
                      /\ \A e \in ByLink(i) : e.id = invites[i].id
    BY <1>2, <2>3 DEF StoredCounted, Live
  <2>5. past.uncounted[i] = IF Live(i) THEN Cardinality(ByLink(i)) - invites[i].samples ELSE 0
    BY <1>2, <2>3
  <2>6. past.uncounted[i] \in Nat /\ (Live(i) => Balanced(i))
    BY <2>2, <2>3, <2>4, <2>5 DEF Balanced
  <2>7. invites[i].state = "unused" => past.uncounted[i] = 0
    BY <2>5 DEF Live
  <2> QED  BY <2>4, <2>6, <2>7 DEF LinkOK
<1> QED  BY <1>1, <1>2, <1>3, <1>4 DEF CInv

LEMMA CountFollows ==
  ASSUME CInv
  PROVE  InviteCountExact
BY DEF CInv, LinkOK, Balanced, ByLink, InviteCountExact

\* On any database and under any workload the count of a live link is the
\* number of samples it left, up to those that are being written and those that
\* a restart cut off.
THEOREM Counts ==
  ASSUME NEW stored, StoredSound(stored), StoredTyped(stored), StoredCounted(stored)
  PROVE  Init(stored) /\ [][Next]_vars => []InviteCountExact
<1>1. Init(stored) => NInv /\ CInv
  BY NamesInitially, CountInitially DEF Init
<1>2. NInv /\ CInv /\ [Next]_vars => (NInv /\ CInv)'
  BY NamesStep, CountStep
<1>3. CInv => InviteCountExact
  BY CountFollows
<1> QED  BY <1>1, <1>2, <1>3, PTL
=============================================================================
