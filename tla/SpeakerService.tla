----------------------------- MODULE SpeakerService -----------------------------
(***************************************************************************)
(* The speaker-id service (speaker-id/app/): the HTTP endpoints of main.py *)
(* over SqliteNumpyStore, whose tables are mirrored in memory as two       *)
(* parallel fields, _ids and _mat.                                         *)
(*                                                                         *)
(* `async def` endpoints share the event loop: one at a time between their *)
(* awaits, suspended while they read the upload.  `def` endpoints run on   *)
(* threads of their own.  Every write takes the store's lock; reads take   *)
(* none, so what an endpoint has checked may be gone when it writes, and a *)
(* query may read the two mirror fields on both sides of a reload.         *)
(***************************************************************************)
EXTENDS Naturals, Sequences, FiniteSets

CONSTANTS Ids,          \* speaker ids
          Voices,       \* people
          Invites,      \* invite links
          Clips,        \* recordings: sequences of the voices heard in them
          Loads,        \* workloads; a behaviour has one of them
          MaxRequests   \* bound: requests in any of them

ASSUME ServiceAssumption ==
  /\ MaxRequests \in Nat
  /\ \A l \in Loads : l.requests \in 0..MaxRequests /\ l.restarts \in Nat
  /\ Clips \subseteq Seq(Voices)
  /\ \A c \in Clips : c # << >>

VARIABLES
  load,      \* bound: [ops, requests, restarts, ...], what is called and how often
  profiles,  \* table speakers: the ids present
  consent,   \* table speakers: the ids whose consent column is 1
  rows,      \* table embeddings
  invites,   \* table invites
  fk,        \* PRAGMA foreign_keys of the one connection
  lock,      \* SqliteNumpyStore._lock: the request that holds it, or Nobody
  mirror,    \* [ids, mat]: _ids and _mat
  req,       \* the requests, in the order they arrived
  arrived,   \* counter: requests that have arrived
  restarts,  \* counter: restarts
  past       \* history: ids ever given out, <<id, voice>> ever enrolled, and
             \* uses of an invite that a restart kept from being counted

tables  == <<profiles, consent, rows, invites>>
service == <<load, tables, fk, lock, mirror, req, arrived, restarts, past>>

-----------------------------------------------------------------------------
Requests == 1..MaxRequests
Nobody   == 0
NoSpeaker == "no speaker"
NoInvite  == "no invite"

ASSUME NamesAssumption == NoInvite \notin Invites

AsyncOps == {"identify", "diarize", "sample", "invite_sample", "test"}
InviteOps == {"invite_sample", "test", "consent"}
Questions == {"identify", "diarize"}
Embeds    == {"sample", "invite_sample"}

\* Where a request is.  The pcs of LoopPcs keep the event loop busy when the
\* endpoint is async.
LoopPcs == {"insert", "ids", "mat", "touch", "match", "zip"}
Pcs     == LoopPcs \cup {"free", "arrived", "read", "write", "answered", "lost"}

NoRequest == [op |-> "none", pc |-> "free", id |-> NoSpeaker, inv |-> NoInvite,
              clip |-> << >>, mat |-> << >>, verdicts |-> << >>, torn |-> FALSE,
              status |-> 0]

Unknown   == [decision |-> "unknown", id |-> NoSpeaker]
Ambiguous == [decision |-> "ambiguous", id |-> NoSpeaker]
Known(id) == [decision |-> "known", id |-> id]

\* decide: the ranked matches against the threshold and the margin.  A voice
\* is within the threshold of its own samples only, and two speakers that both
\* hold such a sample are too close to call.
Decide(near) ==
  IF near = {} THEN Unknown
  ELSE IF \E a, b \in near : a # b THEN Ambiguous
  ELSE Known(CHOOSE id \in near : TRUE)

\* query: `sims` comes of one field and is zipped with the other.
Near(ids, mat, voice) ==
  {ids[k] : k \in {j \in DOMAIN ids \cap DOMAIN mat : mat[j] = voice}}

\* The SELECT of _reload: in the order of insertion.
InOrder(R) ==
  [k \in 1..Cardinality(R) |-> CHOOSE e \in R : Cardinality({f \in R : f.row < e.row}) = k - 1]
IdsOf(R)   == LET s == InOrder(R) IN [k \in DOMAIN s |-> s[k].id]
MatOf(R)   == LET s == InOrder(R) IN [k \in DOMAIN s |-> s[k].voice]
NextRow    == IF rows = {} THEN 1 ELSE 1 + (CHOOSE n \in {e.row : e \in rows} :
                                               \A e \in rows : e.row <= n)

Live(i)   == invites[i].state = "live"
Active(i) == Live(i) /\ ~invites[i].revoked /\ ~invites[i].expired   \* _invite_status

-----------------------------------------------------------------------------
Invite ==
  [state : {"unused", "live", "gone"}, id : Ids \cup {NoSpeaker},
   revoked : BOOLEAN, expired : BOOLEAN, samples : Nat]

\* A database as an earlier process leaves it.
StoredSound(stored) ==
  /\ stored.consent \subseteq stored.profiles
  /\ \A e \in stored.rows :
       e.id \in stored.profiles /\ (e.via # NoInvite => e.id \in stored.consent)
  /\ stored.invites \in [Invites -> Invite]
  /\ \A i \in Invites :
       stored.invites[i].state = "live" => stored.invites[i].id \in stored.profiles

\* Its tables' types; row is SQLite's key, which counts up.
Embedding == [row : Nat, id : Ids, voice : Voices, via : Invites \cup {NoInvite}]
StoredTyped(stored) ==
  /\ stored.profiles \subseteq Ids
  /\ IsFiniteSet(stored.rows) /\ stored.rows \subseteq Embedding
  /\ \A e, f \in stored.rows : e.row = f.row => e = f

\* What its links have recorded, and have counted unless a crash prevented it.
Left(stored, i) == {e \in stored.rows : e.via = i}
StoredCounted(stored) ==
  \A i \in Invites :
    /\ stored.invites[i].state = "unused" => Left(stored, i) = {}
    /\ stored.invites[i].state = "live" =>
         /\ stored.invites[i].samples <= Cardinality(Left(stored, i))
         /\ \A e \in Left(stored, i) : e.id = stored.invites[i].id

\* Start on the database left behind: everything enrolled before is loaded.
InitService(stored) ==
  /\ load \in Loads
  /\ profiles = stored.profiles /\ consent = stored.consent
  /\ rows = stored.rows /\ invites = stored.invites
  /\ fk = FALSE
  /\ lock = Nobody
  /\ mirror = [ids |-> IdsOf(stored.rows), mat |-> MatOf(stored.rows)]
  /\ req = [r \in Requests |-> NoRequest]
  /\ arrived = 0
  /\ restarts = 0
  /\ past = [ids |-> stored.profiles, enrolled |-> {<<e.id, e.voice>> : e \in stored.rows},
             uncounted |-> [i \in Invites |->
               IF Live(i) THEN Cardinality(Left(stored, i)) - invites[i].samples ELSE 0]]

Arrive(op, id, inv, clip) ==
  /\ arrived < load.requests
  /\ arrived' = arrived + 1
  /\ req' = [req EXCEPT ![arrived + 1] =
               [NoRequest EXCEPT !.op = op, !.id = id, !.inv = inv, !.clip = clip,
                  !.pc = IF op \in Questions THEN "read" ELSE "arrived"]]
  /\ UNCHANGED <<load, tables, fk, lock, mirror, restarts, past>>

Goto(r, pc)  == req' = [req EXCEPT ![r].pc = pc]
Answer(r, s) == req' = [req EXCEPT ![r].pc = "answered", ![r].status = s]

\* The event loop runs r, or r does not need it.
LoopRuns(r) ==
  req[r].op \in AsyncOps =>
    \A q \in Requests \ {r} : ~(req[q].op \in AsyncOps /\ req[q].pc \in LoopPcs)

At(r, op, pc) == req[r].op = op /\ req[r].pc = pc
Takes(r) == lock = Nobody /\ lock' = r

(* What an endpoint checks before it waits for the upload. *)

\* Mutant: the consent of the invitee is not asked for.
Admitted_NoConsent(r) ==
  CASE req[r].op = "sample" -> IF req[r].id \in profiles THEN 0 ELSE 404
    [] req[r].op \in InviteOps -> IF ~Live(req[r].inv) THEN 404
                                  ELSE IF ~Active(req[r].inv) THEN 410 ELSE 0
    [] OTHER -> 0

\* 0, or the status the request is refused with
Admitted(r) ==
  CASE req[r].op = "sample" -> IF req[r].id \in profiles THEN 0 ELSE 404
    [] req[r].op \in InviteOps ->
         IF ~Live(req[r].inv) THEN 404
         ELSE IF ~Active(req[r].inv) THEN 410
         ELSE IF req[r].op = "invite_sample" /\ invites[req[r].inv].id \notin consent THEN 403
         ELSE 0
    [] OTHER -> 0

\* add_sample, invite_add_sample and invite_test up to `await file.read()`, and
\* invite_consent up to its write; identify and diarize have nothing to check.  An invite is read
\* once: what the request holds from here on is the speaker it is bound to.
Validate(r) ==
  /\ req[r].pc = "arrived" /\ req[r].op \in AsyncOps \cup {"consent"}
  /\ LoopRuns(r)
  /\ IF Admitted(r) # 0 THEN Answer(r, Admitted(r))
     ELSE req' = [req EXCEPT
            ![r].pc = IF req[r].op = "consent" THEN "write" ELSE "read",
            ![r].id = IF req[r].op \in InviteOps THEN invites[req[r].inv].id ELSE req[r].id]
  /\ UNCHANGED <<load, tables, fk, lock, mirror, arrived, restarts, past>>

\* The upload is read, decoded, checked for quality and embedded; any of it
\* may fail: 400 or 422, no segments, or an unknown speaker.
Embed(r) ==
  /\ req[r].pc = "read" /\ LoopRuns(r)
  /\ \/ Goto(r, IF req[r].op \in Embeds THEN "insert" ELSE "match")
     \/ req' = [req EXCEPT ![r].pc = "answered",
                  ![r].status = IF req[r].op \in Questions THEN 200 ELSE 400,
                  ![r].verdicts = IF req[r].op = "identify" THEN <<Unknown>> ELSE << >>]
  /\ UNCHANGED <<load, tables, fk, lock, mirror, arrived, restarts, past>>

(* add_embedding, then _reload under the same lock.                        *)

\* Mutant: the failed INSERT leaves the lock taken.
Refused_LockKept(r) == lock' = r /\ Answer(r, 500)

\* The foreign key refuses the row: the `with` block lets go of the lock.
Refused(r) == lock' = Nobody /\ Answer(r, 500)

Row(r) == [row |-> NextRow, id |-> req[r].id, voice |-> Head(req[r].clip),
           via |-> IF req[r].op = "sample" THEN NoInvite ELSE req[r].inv]

Insert(r) ==
  /\ req[r].pc = "insert" /\ lock = Nobody
  /\ IF fk /\ req[r].id \notin profiles
     THEN Refused(r) /\ UNCHANGED <<rows, past>>
     ELSE /\ lock' = r
          /\ rows' = rows \cup {Row(r)}
          /\ past' = [past EXCEPT !.enrolled = @ \cup {<<Row(r).id, Row(r).voice>>}]
          /\ Goto(r, "ids")
  /\ UNCHANGED <<load, profiles, consent, invites, fk, mirror, arrived, restarts>>

\* Reloads of a deletion shift rows: a query between its two reads tears.
Tears(r, pcs) == [q \in Requests |->
  IF req[r].op = "delete" /\ req[q].pc \in pcs THEN [req[q] EXCEPT !.torn = TRUE] ELSE req[q]]

ReloadIds(r) ==
  /\ req[r].pc = "ids"
  /\ mirror' = [mirror EXCEPT !.ids = IdsOf(rows)]
  /\ req' = [Tears(r, {"zip"}) EXCEPT ![r].pc = "mat"]
  /\ UNCHANGED <<load, tables, fk, lock, arrived, restarts, past>>

\* The second field, and the lock is free again; the endpoint answers, except
\* that an invitee's sample is still to be counted.
ReloadMat(r) ==
  /\ req[r].pc = "mat"
  /\ mirror' = [mirror EXCEPT !.mat = MatOf(rows)]
  /\ lock' = Nobody
  /\ req' = IF req[r].op = "invite_sample"
            THEN [req EXCEPT ![r].pc = "touch"]
            ELSE [Tears(r, {"zip"}) EXCEPT ![r].pc = "answered",
                    ![r].status = IF req[r].status = 0 THEN 200 ELSE @]
  /\ UNCHANGED <<load, tables, fk, arrived, restarts, past>>

\* Mutant: a link revoked in the meantime is no longer counted for.
Counted_IfActive(i) == Active(i)

\* touch_invite: UPDATE ... WHERE invite_id, revoked or not.
Counted(i) == Live(i)

TouchInvite(r) ==
  /\ req[r].pc = "touch" /\ lock = Nobody
  /\ invites' = IF Counted(req[r].inv) THEN [invites EXCEPT ![req[r].inv].samples = @ + 1]
                ELSE invites
  /\ Answer(r, 200)
  /\ UNCHANGED <<load, profiles, consent, rows, fk, lock, mirror, arrived, restarts, past>>

(* The endpoints that run on threads.                                      *)

\* INSERT OR IGNORE: a speaker that exists keeps its row, consent included.
CreateSpeaker(r) ==
  /\ At(r, "create", "arrived") /\ lock = Nobody
  /\ profiles' = profiles \cup {req[r].id}
  /\ consent' = IF req[r].id \in profiles THEN consent ELSE consent \cup {req[r].id}
  /\ past' = [past EXCEPT !.ids = @ \cup {req[r].id}]
  /\ Answer(r, 200)
  /\ UNCHANGED <<load, rows, invites, fk, lock, mirror, arrived, restarts>>

\* Mutant: the keys are enforced only if somebody asks for it elsewhere.
FkAfterDelete_Off == fk

\* delete_speaker is the only place that turns the foreign keys on.
FkAfterDelete == TRUE

DeleteSpeaker(r) ==
  /\ At(r, "delete", "arrived")
  /\ Takes(r)
  /\ fk' = FkAfterDelete
  /\ profiles' = profiles \ {req[r].id}
  /\ consent' = consent \ {req[r].id}
  /\ rows' = {e \in rows : e.id # req[r].id}
  /\ invites' = [i \in Invites |->
       IF Live(i) /\ invites[i].id = req[r].id THEN [invites[i] EXCEPT !.state = "gone"]
       ELSE invites[i]]
  /\ req' = [req EXCEPT ![r].pc = "ids",
                        ![r].status = IF req[r].id \in profiles THEN 200 ELSE 404]
  /\ UNCHANGED <<load, mirror, arrived, restarts, past>>

\* create_invite looks for its speaker, or makes one that has consented to
\* nothing yet; the invite is a second write.
FindSpeaker(r) ==
  /\ At(r, "invite", "arrived")
  /\ \/ /\ req[r].id \in past.ids
        /\ IF req[r].id \in profiles THEN Goto(r, "write") ELSE Answer(r, 404)
        /\ UNCHANGED <<profiles, past>>
     \/ /\ req[r].id \notin past.ids /\ lock = Nobody
        /\ profiles' = profiles \cup {req[r].id}
        /\ past' = [past EXCEPT !.ids = @ \cup {req[r].id}]
        /\ Goto(r, "write")
  /\ UNCHANGED <<load, consent, rows, invites, fk, lock, mirror, arrived, restarts>>

AddInvite(r) ==
  /\ At(r, "invite", "write") /\ lock = Nobody
  /\ IF fk /\ req[r].id \notin profiles
     THEN Refused(r) /\ UNCHANGED invites
     ELSE /\ \E i \in Invites :
               /\ invites[i].state = "unused"
               /\ invites' = [invites EXCEPT ![i] =
                    [state |-> "live", id |-> req[r].id, revoked |-> FALSE,
                     expired |-> FALSE, samples |-> 0]]
          /\ Answer(r, 200) /\ UNCHANGED lock
  /\ UNCHANGED <<load, profiles, consent, rows, fk, mirror, arrived, restarts, past>>

RevokeInvite(r) ==
  /\ At(r, "revoke", "arrived") /\ lock = Nobody
  /\ invites' = IF Live(req[r].inv) THEN [invites EXCEPT ![req[r].inv].revoked = TRUE]
                ELSE invites
  /\ Answer(r, IF Live(req[r].inv) THEN 200 ELSE 404)
  /\ UNCHANGED <<load, profiles, consent, rows, fk, lock, mirror, arrived, restarts, past>>

\* UPDATE ... WHERE: nothing happens if the speaker is gone by now.
SetConsent(r) ==
  /\ At(r, "consent", "write") /\ lock = Nobody
  /\ consent' = consent \cup ({req[r].id} \cap profiles)
  /\ Answer(r, 200)
  /\ UNCHANGED <<load, profiles, rows, invites, fk, lock, mirror, arrived, restarts, past>>

(* query and score_against_speaker: two reads of the mirror.               *)

QueryMat(r) ==
  /\ req[r].pc = "match" /\ LoopRuns(r)
  /\ req' = [req EXCEPT ![r].pc = "zip",
       ![r].mat = IF mirror.ids = << >> THEN << >> ELSE mirror.mat,
       ![r].torn = @ \/ \E d \in Requests : req[d].op = "delete" /\ req[d].pc = "mat"]
  /\ UNCHANGED <<load, tables, fk, lock, mirror, arrived, restarts, past>>

\* Mutant: each speaker is judged by the first one's spans.
Heard_First(r, k) == req[r].clip[1]

\* The k-th speaker of the recording, by the mean of its own spans.
Heard(r, k) == req[r].clip[k]

Verdict(r, near) ==
  IF req[r].op = "test"
  THEN IF req[r].id \in near THEN Known(req[r].id) ELSE Unknown
  ELSE Decide(near)

\* One verdict per recording, for diarize one per speaker in it; a speaker
\* whose spans cannot be embedded is unknown.
QueryZip(r) ==
  /\ req[r].pc = "zip" /\ LoopRuns(r)
  /\ LET k == Len(req[r].verdicts) + 1
         near == Near(mirror.ids, req[r].mat, Heard(r, k))
         last == req[r].op # "diarize" \/ k = Len(req[r].clip)
     IN \E v \in {Verdict(r, near)} \cup (IF req[r].op = "diarize" THEN {Unknown} ELSE {}) :
          req' = [req EXCEPT ![r].verdicts = Append(@, v), ![r].mat = << >>,
                             ![r].pc = IF last THEN "answered" ELSE "match",
                             ![r].status = IF last THEN 200 ELSE 0]
  /\ UNCHANGED <<load, tables, fk, lock, mirror, arrived, restarts, past>>

\* Bound: time passes only in a workload that says so.
Expire(i) ==
  /\ "expire" \in load.ops /\ Active(i)
  /\ invites' = [invites EXCEPT ![i].expired = TRUE]
  /\ UNCHANGED <<load, profiles, consent, rows, fk, lock, mirror, req, arrived, restarts, past>>

Pending(r) == req[r].pc \notin {"free", "answered", "lost"}
Uncounted(i) == {r \in Requests : req[r].inv = i /\ req[r].op = "invite_sample"
                                  /\ req[r].pc \in {"ids", "mat", "touch"}}

\* Mutant: the new process starts with an empty mirror.
Loaded_Empty == [ids |-> << >>, mat |-> << >>]

\* Of the embedding model in use (store.py 125 selects by model and dimension);
\* here there is one.
Loaded == [ids |-> IdsOf(rows), mat |-> MatOf(rows)]

\* The process dies and comes back: what was committed is loaded, requests in
\* progress are lost, and the new connection does not enforce foreign keys.
Restart ==
  /\ restarts < load.restarts
  /\ restarts' = restarts + 1
  /\ fk' = FALSE
  /\ lock' = Nobody
  /\ mirror' = Loaded
  /\ req' = [r \in Requests |-> IF Pending(r) THEN [req[r] EXCEPT !.pc = "lost"] ELSE req[r]]
  /\ past' = [past EXCEPT !.uncounted =
                [i \in Invites |-> @[i] + IF Live(i) THEN Cardinality(Uncounted(i)) ELSE 0]]
  /\ UNCHANGED <<load, tables, arrived>>

Serve(r) ==
  \/ Validate(r) \/ Embed(r) \/ Insert(r) \/ ReloadIds(r) \/ ReloadMat(r) \/ TouchInvite(r)
  \/ CreateSpeaker(r) \/ DeleteSpeaker(r) \/ FindSpeaker(r) \/ AddInvite(r)
  \/ RevokeInvite(r) \/ SetConsent(r) \/ QueryMat(r) \/ QueryZip(r)

\* What administrators, invitees and the pipeline ask for.  A link has to be
\* given out before anybody can use it.
Given == {i \in Invites : invites[i].state # "unused"}
Ask(op) ==
  \/ op \in {"create", "delete"} /\ \E id \in Ids : Arrive(op, id, NoInvite, << >>)
  \/ /\ op = "invite"  \* bound: as many as there are links left to give out
     /\ Invites \ Given # {}
     /\ \A r \in Requests : ~(req[r].op = "invite" /\ Pending(r))
     /\ \E id \in Ids : Arrive(op, id, NoInvite, << >>)
  \/ op = "sample" /\ \E id \in Ids, c \in Clips : Arrive(op, id, NoInvite, c)
  \/ op \in {"revoke", "consent"} /\ \E i \in Given : Arrive(op, NoSpeaker, i, << >>)
  \/ op \in {"invite_sample", "test"} /\ \E i \in Given, c \in Clips : Arrive(op, NoSpeaker, i, c)
  \/ op \in Questions /\ \E c \in Clips : Arrive(op, NoSpeaker, NoInvite, c)

ServiceNext ==
  \/ \E op \in load.ops : Ask(op)
  \/ \E r \in Requests : Serve(r)
  \/ \E i \in Invites : Expire(i)
  \/ Restart

-----------------------------------------------------------------------------
(* Properties. *)

Request ==
  [op : AsyncOps \cup {"create", "delete", "invite", "revoke", "consent", "none"},
   pc : Pcs, id : Ids \cup {NoSpeaker}, inv : Invites \cup {NoInvite},
   clip : Clips \cup {<< >>}, mat : Seq(Voices),
   verdicts : Seq([decision : {"known", "unknown", "ambiguous"}, id : Ids \cup {NoSpeaker}]),
   torn : BOOLEAN, status : {0, 200, 400, 403, 404, 410, 500}]

ServiceTypeOK ==
  /\ profiles \subseteq Ids /\ consent \subseteq profiles
  /\ rows \subseteq Embedding
  /\ invites \in [Invites -> Invite]
  /\ fk \in BOOLEAN
  /\ lock \in Requests \cup {Nobody}
  /\ mirror \in [ids : Seq(Ids), mat : Seq(Voices)]
  /\ req \in [Requests -> Request]
  /\ arrived \in 0..MaxRequests /\ restarts \in Nat /\ load \in Loads

\* Hard delete: no voice sample and no invite outlives its speaker, although
\* add_sample, invite_add_sample and create_invite check that the speaker
\* exists long before they write, and although SQLite enforces foreign keys
\* only after a connection's first delete (store.py 174): the request that a
\* deletion overtakes is refused by the key that very deletion turned on.
NoOrphans ==
  /\ \A e \in rows : e.id \in profiles
  /\ \A i \in Invites : Live(i) => invites[i].id \in profiles

\* Whoever finds the lock free finds the mirror equal to the table: a sample
\* just added is matched, a speaker just deleted is not (store.py 124), and so
\* it is after a restart.
MirrorFresh ==
  lock = Nobody => mirror = [ids |-> IdsOf(rows), mat |-> MatOf(rows)]

\* What an invite link has recorded was consented to (main.py 413), whatever
\* became of the speaker between the check and the write, and under an id
\* that was deleted and created again.
InviteeConsented ==
  \A e \in rows : e.via # NoInvite => e.id \in consent

\* samples_added of an invite is the number of samples it left in the store,
\* up to those being written and those a restart cut off (main.py 427).
InviteCountExact ==
  \A i \in Invites : Live(i) =>
    Cardinality({e \in rows : e.via = i}) =
      invites[i].samples + Cardinality(Uncounted(i)) + past.uncounted[i]

\* The store, and the copy of it the matching runs on.
StoreSound == NoOrphans /\ MirrorFresh /\ InviteeConsented

Named(r) == {<<req[r].verdicts[k].id, req[r].clip[k]>> :
               k \in {j \in DOMAIN req[r].verdicts : req[r].verdicts[j].decision = "known"}}

\* A speaker is named to a caller only for a voice that was enrolled under that
\* id, whatever is added while the query runs (store.py 245): the pairing of
\* _ids with _mat tears only if a deletion reloads them in between.
NamedForOwnVoice ==
  \A r \in Requests : ~req[r].torn => Named(r) \subseteq past.enrolled

\* What decision.py 12 and main.py 169 say without that exception: the speaker
\* named is the one whose sample was nearest, "rather than a wrong attribution".
NeverWrongAttribution ==
  \A r \in Requests : Named(r) \subseteq past.enrolled

\* Every request is answered, or lost in a restart: the store's lock is given
\* back on every path and nobody waits on the event loop for ever.
EveryRequestEnds == \A r \in Requests : Pending(r) ~> ~Pending(r)
=============================================================================
