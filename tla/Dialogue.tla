------------------------------ MODULE Dialogue ------------------------------
(***************************************************************************)
(* Generations over the history of ChatHistory: what the LLM thread        *)
(* (LLM/responses_api_language_model.py) reads from the chat, and when it  *)
(* strips and trims it, while the event loop goes on adding what the       *)
(* client and the transcriber say (handlers/conversation.py).  The thread  *)
(* takes one request at a time; each call of a method of Chat is an        *)
(* action, since the event loop may call another in between.  Stripping    *)
(* and trimming come at the end of every generation, cancelled and failed  *)
(* ones included.                                                          *)
(***************************************************************************)
EXTENDS ChatHistory

CONSTANT MaxRequests    \* bound: generations asked for in a behaviour

ASSUME RequestsAssumption == MaxRequests \in Nat

VARIABLES asked,        \* requests put in the queue so far
          answered,     \* requests taken from it so far
          llm,          \* the LLM thread: where it is, and the prompt it sent
          pictures,     \* the user messages added with nothing but an image
          images,       \* those whose image is still there
          shown         \* history: images of the buffer that a prompt has had

dialogue == <<asked, answered, llm, pictures, images, shown>>
dialogueVars == <<vars, dialogue>>

Resting == [pc |-> "idle", prompt |-> << >>]

DialogueInit ==
  /\ Init
  /\ asked = 0 /\ answered = 0
  /\ llm = Resting
  /\ pictures = {} /\ images = {} /\ shown = {}

-----------------------------------------------------------------------------
(* The event loop: conversation.item.create, transcripts, response.create.   *)
(* What the LLM thread adds while it streams is among the items, too: Chat   *)
(* does not ask who adds.                                                    *)

AddItem ==
  /\ \/ AddUser \/ AddAssistant
     \/ \E c \in Calls : AddCall(c) \/ AddOutput(c)
  /\ UNCHANGED dialogue

\* A user message without text, cleaned of everything but its image.
AddPicture ==
  /\ AddUser
  /\ pictures' = pictures \cup {nextId}
  /\ images' = images \cup {nextId}
  /\ UNCHANGED <<asked, answered, llm, shown>>

\* A request for a generation, from a transcript or from the client.
Ask ==
  /\ asked < MaxRequests
  /\ asked' = asked + 1
  /\ UNCHANGED <<vars, answered, llm, pictures, images, shown>>

-----------------------------------------------------------------------------
(* The LLM thread. *)

Hint == [kind |-> "user", id |-> 0, call |-> NoCall, epoch |-> resets]

\* copy(), and the language hint that is added to the copy only.
Clone(hinted) ==
  IF hinted
  THEN HardCap([items |-> Append(buffer, Hint), turns |-> userTurns + 1])
  ELSE Now

\* Mutant: such a message is sent without content.
Serialized_All(items) == items

\* to_responses_api_chat leaves out a message that has lost its image.
Serialized(items) ==
  Without(items, {i \in ToSet(items) : i.id \in pictures \ images})

Pictured(prompt) == {i.id : i \in ToSet(prompt)} \cap pictures

\* process() up to the request to the model.  The copy shares its items with
\* the chat, but only this thread changes one that is in it.
TakeRequest ==
  /\ llm.pc = "idle" /\ answered < asked
  /\ answered' = answered + 1
  /\ \E hinted \in BOOLEAN :
       llm' = [pc |-> "stream", prompt |-> Serialized(Clone(hinted).items)]
  /\ shown' = shown \cup Pictured(llm'.prompt)
  /\ UNCHANGED <<vars, asked, pictures, images>>

\* Mutant: what a generation that came to nothing was shown, is kept.
Stripped_OnSuccess == {{}, images}

\* strip_images, whatever became of the generation.
Stripped == {{}}

StripImages ==
  /\ llm.pc = "stream"
  /\ llm' = [pc |-> "trim", prompt |-> << >>]
  /\ images' \in Stripped
  /\ shown' = shown \cap images'
  /\ UNCHANGED <<vars, asked, answered, pictures>>

\* Nothing to trim, or a compaction that may not start now.
NothingToTrim ==
  \/ userTurns <= Size
  \/ compactor /\ (Shutdown \/ inFlight \/ Compactable < 2 \/ Markers = {})

Trim ==
  /\ llm.pc = "trim"
  /\ llm' = Resting
  /\ Evict \/ TriggerCompaction \/ (NothingToTrim /\ UNCHANGED vars)
  /\ UNCHANGED <<asked, answered, pictures, images, shown>>

Generation == TakeRequest \/ StripImages \/ Trim

-----------------------------------------------------------------------------
Background ==
  /\ Work \/ Reset \/ CloseBegin \/ CloseEnd
  /\ UNCHANGED dialogue

DialogueNext == AddItem \/ AddPicture \/ Ask \/ Generation \/ Background

DialogueSpec == DialogueInit /\ [][DialogueNext]_dialogueVars

-----------------------------------------------------------------------------
(* Properties. *)

\* The type invariant.
DialogueTypeOK ==
  /\ TypeOK
  /\ answered \in 0..asked /\ asked \in 0..MaxRequests
  /\ llm \in [pc : {"idle", "stream", "trim"}, prompt : Seq(ItemType)]
  /\ shown \subseteq images /\ images \subseteq pictures /\ pictures \subseteq Nat

\* What the model is sent obeys the same rule as the history: no output without
\* its call before it, though the hint may evict a turn from the copy.
PromptPaired ==
  ~repeated =>
    \A n \in DOMAIN llm.prompt : llm.prompt[n].kind = "output" =>
      \E m \in 1..(n - 1) : llm.prompt[m].kind = "call" /\ llm.prompt[m].call = llm.prompt[n].call

\* What a generation is given.
PromptSound == DialogueTypeOK /\ PromptPaired

\* "images don't persist across turns" (chat.py:432): an image is paid for in
\* the prompt of one generation, even if that one fails or is cut short.
ImagesOnce ==
  [][llm.pc = "idle" /\ llm'.pc = "stream" => Pictured(llm'.prompt) \cap shown = {}]_dialogueVars

\* "Items are added to the LLM chat context" (conversation.py:46): no image is
\* taken from the history before a prompt has had it.
ImagesSeen ==
  [][\A i \in ToSet(buffer) : i.id \in images \ images' => i.id \in shown]_dialogueVars
=============================================================================
