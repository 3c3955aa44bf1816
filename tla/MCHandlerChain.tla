----------------------------- MODULE MCHandlerChain -----------------------------
(* HandlerChain on small instances. *)
EXTENDS HandlerChain

CONSTANTS a, b

Load(cap, backend, compact, live, ends, u, r, c, t, f) ==
  [cap |-> [s \in Services |-> cap], backend |-> backend, compact |-> compact,
   live |-> live, ends |-> ends,
   utterances |-> u, requests |-> r, cancels |-> c, texts |-> t, frames |-> f]

\* One session with each back end; one torn down at any time; two that share
\* one slot of each service, one of which is torn down.
MCLoads ==
  {Load(1, "openai", FALSE, {a}, {}, 1, 1, 1, 1, 2),
   Load(0, "elevenlabs", FALSE, {a}, {}, 0, 1, 2, 2, 2),
   Load(1, "minimax", FALSE, {a}, {}, 0, 1, 2, 2, 2),
   Load(1, "openai", FALSE, {a}, {a}, 0, 1, 0, 0, 0),
   Load(1, "openai", FALSE, {a, b}, {a}, 1, 0, 0, 0, 0),
   Load(1, "openai", TRUE, {a, b}, {}, 0, 1, 1, 0, 1)}
=============================================================================
