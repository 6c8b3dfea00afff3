----------------------------- MODULE MCExchange -----------------------------
(* The links over which the exchange is checked.                           *)
EXTENDS Exchange

Link0 == [ordered |-> TRUE, lossy |-> TRUE, timely |-> TRUE, sizes |-> {1},
          requests |-> 1, outstanding |-> 1, lifetime |-> IdSpace, age |-> SeqSpace - OurWindow,
          responses |-> ResponseSizes, answers |-> {}]

\* Segmented requests over a link that neither loses nor reorders, and
\* unsegmented ones, of which the handler may abort some, over one that loses.
MCLinks ==
  { [Link0 EXCEPT !.lossy = FALSE, !.sizes = {1, 3}, !.requests = 2,
                  !.outstanding = 2, !.answers = {"Error", "Reject"}],
    [Link0 EXCEPT !.answers = {"SimpleAck", "Abort"}] }

\* Unsegmented requests over a network that reorders, repeats and loses, with
\* timers that fire at any moment: more of them than there are invoke IDs, and
\* one whose response has more segments than there are sequence numbers.  A
\* message is under way no longer than the invoke IDs, and a segment no longer
\* than the sequence numbers less a window, take to come round: no longer
\* lifetime or age would do.
MCChaotic ==
  { [Link0 EXCEPT !.ordered = FALSE, !.timely = FALSE, !.requests = 3,
                  !.responses = {1, 2}],
    [Link0 EXCEPT !.ordered = FALSE, !.timely = FALSE, !.responses = {6}] }

\* A segmented request over a link that loses.
MCLostSegment ==
  { [Link0 EXCEPT !.sizes = {3}, !.answers = {"Error", "Reject"}] }
=============================================================================
