-------------------------------- MODULE Trim --------------------------------
(***************************************************************************)
(* The context guardrail of app/trim.py: a chat whose estimate exceeds the *)
(* context that its client declared is shrunk before it is forwarded.      *)
(* What is inside a message does not matter, only its role, whether it     *)
(* calls tools or is plain text, and how long it is.                       *)
(***************************************************************************)
EXTENDS Integers, Sequences, FiniteSetsExt

CONSTANTS
  Chats,                \* the requests that clients may send
  CharsPerToken,        \* chars_per_token
  MaxToolResultTokens,  \* max_tool_result_tokens, 0 to disable
  ProtectRecent,        \* protect_recent
  MediaPartTokens,      \* MEDIA_PART_TOKENS
  Frame,                \* characters of a message around its text
  Mark,                 \* characters of TRUNCATION_MARK
  Untouched,            \* trim_request returned None
  Pending               \* trim_request was not called yet

ChatMessage ==
  [role : STRING, text : Nat, calls : BOOLEAN, plain : BOOLEAN, media : Nat]

ASSUME TrimAssumption ==
  /\ CharsPerToken \in Nat \ {0}
  /\ {MaxToolResultTokens, ProtectRecent, MediaPartTokens, Frame, Mark} \subseteq Nat
  /\ \A c \in Chats :
       /\ c.messages \in Seq(ChatMessage) /\ c.messages # <<>>
       /\ {c.rest, c.body} \subseteq Nat /\ c.budget \in Int

VARIABLES
  chat,   \* the request: its messages, the length of the rest, of the whole body, the budget
  sent    \* what is forwarded: the messages (excerpted), and which of them are kept

vars == <<chat, sent>>

-----------------------------------------------------------------------------
(* The estimate *)

Tokens(chars) == (chars + CharsPerToken - 1) \div CharsPerToken

MsgTokens(msg) == Tokens(Frame + msg.text) + msg.media * MediaPartTokens

(* A sum as the size of a set, the tokens of every message being numbered. *)
Cost(messages, indices) ==
  Cardinality(UNION {{i} \X (1 .. MsgTokens(messages[i])) : i \in indices})

Estimate(c) == Tokens(c.rest) + Cost(c.messages, DOMAIN c.messages)

-----------------------------------------------------------------------------
(* Old tool results *)

MaxChars == MaxToolResultTokens * CharsPerToken

Oversized(messages, i) ==
  /\ MaxToolResultTokens > 0
  /\ messages[i].role = "tool"
  /\ messages[i].plain
  /\ Len(messages) - i >= ProtectRecent
  /\ messages[i].text > MaxChars

(* _truncate_middle keeps MaxChars characters, head and tail, and says so. *)
CapOldToolResults(messages) ==
  [i \in DOMAIN messages |->
     IF Oversized(messages, i) THEN [messages[i] EXCEPT !.text = MaxChars + Mark] ELSE messages[i]]

-----------------------------------------------------------------------------
(* The window *)

System(messages) == {i \in DOMAIN messages : messages[i].role = "system"}

Others(messages) == DOMAIN messages \ System(messages)

HeadsOfOne(messages) == Others(messages)  \* mutant: a tool result is a block of its own

(* _blocks: a result joins the block before it, which ends in a result or  *)
(* is a message that calls tools; anything else is the head of a block.    *)
Joins(messages, i) ==
  /\ messages[i].role = "tool"
  /\ \E j \in Others(messages) :
       /\ j < i /\ \A k \in Others(messages) : k < i => k <= j
       /\ messages[j].role = "tool" \/ messages[j].calls

Heads(messages) == {i \in Others(messages) : ~Joins(messages, i)}

(* The window that begins at i. *)
From(messages, i) == System(messages) \cup {j \in Others(messages) : j >= i}

FitsBelow(messages, fixed, i, budget) ==  \* mutant: off by one
  fixed + Cost(messages, From(messages, i)) < budget

Fits(messages, fixed, i, budget) == fixed + Cost(messages, From(messages, i)) <= budget

CutLate(messages, fixed, budget) ==  \* mutant: a block is tested after it was added
  Min({head \in Heads(messages) :
         \A later \in Heads(messages) :
           later > head /\ later # Max(Heads(messages)) => Fits(messages, fixed, later, budget)})

(* From the newest block, which is always kept, to older ones, up to the   *)
(* first that does not fit.                                                *)
Cut(messages, fixed, budget) ==
  Min({head \in Heads(messages) :
         \A later \in Heads(messages) :
           later >= head /\ later # Max(Heads(messages)) => Fits(messages, fixed, later, budget)})

(* Results without their call are dropped from the head of the window, but *)
(* for the last message.                                                   *)
WithoutOrphans(messages, window) ==
  {i \in window : \/ i = Max(window)
                  \/ \E j \in window : j <= i /\ messages[j].role # "tool"}

(* All system messages, and what is left of the window. *)
Kept(messages, fixed, budget) ==
  IF Others(messages) = {}
  THEN System(messages)
  ELSE System(messages)
         \cup WithoutOrphans(messages,
                {i \in Others(messages) : i >= Cut(messages, fixed, budget)})

TrimRequest(c) ==
  LET fixed    == Tokens(c.rest)
      messages == CapOldToolResults(c.messages)
      kept     == Kept(messages, fixed, c.budget)
  IN IF \/ c.budget <= 0
        \/ Tokens(c.body) <= c.budget
        \/ Estimate(c) <= c.budget
        \/ kept = DOMAIN messages /\ \A i \in kept : ~Oversized(c.messages, i)
     THEN Untouched
     ELSE [messages |-> messages, kept |-> kept, after |-> fixed + Cost(messages, kept)]

-----------------------------------------------------------------------------

Init == chat \in Chats /\ sent = Pending

Forward ==
  /\ sent = Pending
  /\ sent' = TrimRequest(chat)
  /\ UNCHANGED chat

Spec == Init /\ [][Forward]_vars

-----------------------------------------------------------------------------
(* Properties of a request that was shrunk *)

Shrunk == sent \notin {Pending, Untouched}

(* Message i is a result of the calls of message c: nothing but results    *)
(* and system messages lies between them.                                  *)
Answers(i, c) ==
  /\ c < i /\ chat.messages[c].calls /\ chat.messages[c].role \notin {"system", "tool"}
  /\ \A k \in c + 1 .. i : chat.messages[k].role \in {"tool", "system"}
  /\ chat.messages[i].role = "tool"

Conversation == sent.kept \cap Others(chat.messages)

(* A tool call and its results are forwarded together or not at all, and   *)
(* what is forwarded does not begin with a result, unless there is nothing *)
(* else to send: "the window never starts on a dangling tool call" (the    *)
(* module's docstring).                                                    *)
PairingKept ==
  Shrunk =>
    /\ \A i, c \in DOMAIN chat.messages :
         Answers(i, c) => (i \in sent.kept <=> c \in sent.kept)
    /\ Cardinality(Conversation) > 1 => chat.messages[Min(Conversation)].role # "tool"

Newest == Max(Others(chat.messages))

(* The newest message and all it belongs to. *)
NewestBlock ==
  {i \in Others(chat.messages) :
     \/ i = Newest
     \/ Answers(Newest, i)
     \/ \A k \in i .. Newest : chat.messages[k].role \in {"tool", "system"}}

(* What is forwarded is within the budget, or it is the newest block       *)
(* alone, which is always sent.                                            *)
FitsOrIsNewest ==
  Shrunk /\ System(chat.messages) # DOMAIN chat.messages =>
    /\ Newest \in sent.kept
    /\ sent.after <= chat.budget \/ Conversation \subseteq NewestBlock

(* No older turn that was dropped would have fit, excerpts included: a     *)
(* trim does not drop more than it must.                                   *)
DropsNoMoreThanNeeded ==
  Shrunk =>
    \A first \in Others(chat.messages) :
      /\ Conversation # {} /\ first < Min(Conversation)
      /\ chat.messages[first].role # "tool"
      => Tokens(chat.rest)
           + Cost(sent.messages, {i \in DOMAIN chat.messages :
                                    i >= first \/ chat.messages[i].role = "system"})
           > chat.budget

(* The length of the body is "a free upper bound" (trim_request).  It is   *)
(* not for a message with a short image URL, nor where roundings add up.   *)
BoundIsUpper == Tokens(chat.body) <= chat.budget => Estimate(chat) <= chat.budget

=============================================================================
