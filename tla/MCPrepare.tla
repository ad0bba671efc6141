----------------------------- MODULE MCPrepare ------------------------------
(* What happens to a request before it is dispatched: its model name is    *)
(* resolved (Naming) and its conversation made to fit (Trim).  The two     *)
(* share no state, so that each is explored while the other rests in one   *)
(* of its initial states: all states of either, and not all pairs.         *)
EXTENDS Naming, Trim

-----------------------------------------------------------------------------
(* Conversations *)

CONSTANT ImageChars   \* characters that an image takes in the body

Message(role, text) ==
  [role |-> role, text |-> text, calls |-> FALSE, plain |-> TRUE, media |-> 0]

Short == 2
Long  == 9

Messages ==
  {Message("system", Short), Message("user", Short), Message("user", Long),
   [Message("assistant", Short) EXCEPT !.calls = TRUE],
   Message("tool", Short), Message("tool", Long),
   [Message("tool", Long) EXCEPT !.plain = FALSE],
   [Message("user", Short) EXCEPT !.plain = FALSE, !.media = 1]}

Chat(messages, budget) ==
  [messages |-> messages, rest |-> Short, budget |-> budget,
   body |-> Short + MapThenSumSet(LAMBDA i : Frame + messages[i].text + messages[i].media * ImageChars,
                                  DOMAIN messages)]

Conversations(n) == UNION {[1 .. k -> Messages] : k \in 1 .. n}

SmallChats == {Chat(s, b) : s \in Conversations(4), b \in {0, 4, 7, 10, 13}}

-----------------------------------------------------------------------------
(* Configurations: a is open, b restricted and preferred.  x and y are     *)
(* native ids, c and g the names of clients.                               *)

BackendsAB == <<"a", "b">>

RestrictedB == {"b"}

PriorityB == [p \in {"a", "b"} |-> IF p = "a" THEN 1 ELSE 0]

Allowed == {<<>>, <<"x">>, <<"y", "x">>}

Renamed == {<<>>, "x" :> "c", "x" :> "y", ("x" :> "c") @@ ("y" :> "c")}

AliasMapsAB ==
  {<<>>, "c" :> [provider |-> "b", model |-> "x"], "g" :> [provider |-> "a", model |-> "c"],
   "g" :> Name("y")}

GroupsAB ==
  {[name |-> "g", targets |-> <<Routed("a", "x", 1), Routed("b", "y", 1)>>],
   [name |-> "c", targets |-> <<Routed("b", Inherit, 1)>>]}

Reported == {<<>>, <<"x">>}

-----------------------------------------------------------------------------

AnyChat == Chat(<<Message("user", Short)>>, 0)

PrepareInit == NamingInit /\ Init

PrepareNext ==
  \/ NamingNext /\ chat = AnyChat /\ sent = Pending /\ UNCHANGED vars
  \/ Forward /\ NamingInit /\ UNCHANGED naming

PrepareSpec == PrepareInit /\ [][PrepareNext]_<<naming, vars>>

=============================================================================
