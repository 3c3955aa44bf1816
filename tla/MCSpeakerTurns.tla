----------------------------- MODULE MCSpeakerTurns -----------------------------
(* SpeakerTurns on small instances, starting from a store that has been used. *)
EXTENDS SpeakerTurns

CONSTANTS s1, s2, v1, v2, i1, i2

MCIds == {s1, s2}
MCVoices == {v1, v2}
MCInvites == {i1, i2}
MCClips == {<<v1>>, <<v2, v1>>}

Load(o, q, r, t, n) == [ops |-> o, requests |-> q, restarts |-> r, turns |-> t, opens |-> n]

\* Enrolment and deletion; questions while speakers come and go; the life of a
\* link; turns while a speaker is deleted.
MCLoads ==
  {Load({"sample", "delete", "create"}, 3, 0, << >>, 0),
   Load({"invite_sample", "delete", "create", "expire"}, 3, 1, << >>, 0),
   Load({"sample", "delete", "identify", "diarize", "test"}, 2, 0, << >>, 0),
   Load({"invite", "invite_sample", "revoke", "consent", "delete", "expire"}, 3, 0, << >>, 0),
   Load({"delete"}, 2, 0, << <<v2, v1>> >>, 1),
   Load({}, 2, 0, << <<v1>>, <<v2, v1>> >>, 0)}

\* Two speakers enrolled: the first holds a link, has consented and has recorded
\* a sample that a crash kept the link from counting; the second came in with a
\* link that is gone.
Stored ==
  [profiles |-> {s1, s2}, consent |-> {s1},
   rows |-> {[row |-> 1, id |-> s1, voice |-> v1, via |-> i1],
             [row |-> 2, id |-> s2, voice |-> v2, via |-> NoInvite]},
   invites |-> [i \in Invites |->
     [state |-> IF i = i1 THEN "live" ELSE "unused",
      id |-> IF i = i1 THEN s1 ELSE NoSpeaker,
      revoked |-> FALSE, expired |-> FALSE, samples |-> 0]]]

ASSUME StoredAssumption == StoredSound(Stored) /\ StoredTyped(Stored) /\ StoredCounted(Stored)

Spec == Init(Stored) /\ [][Next]_vars
FairSpec == Spec /\ Fairness
=============================================================================
