----------------------------- MODULE MCConsole ------------------------------
(* What the console polls: the feed of the requests and the tail of the    *)
(* log.  They share no state, so that each is explored while the other     *)
(* rests in its initial state: all states of either, and not all pairs.    *)
EXTENDS Feed, LogTail

ConsoleInit == FeedInit /\ TailInit

FeedRests == arrivals = 0

TailRests == TailInit /\ level = Min(Levels)

ConsoleNext ==
  \/ FeedNext /\ TailRests /\ UNCHANGED tail
  \/ TailNext /\ FeedRests /\ UNCHANGED feed

ConsoleSpec == ConsoleInit /\ [][ConsoleNext]_<<feed, tail>>

=============================================================================
