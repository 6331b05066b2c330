--------------------------- MODULE MC_SessionView ---------------------------
EXTENDS SessionView

\* In step; far apart, across LED 0; stream a dropped a frame, and the pair
\* is late; stream b dropped a frame and shows no LED.
MCSamples ==
  { [dropA |-> FALSE, dropB |-> FALSE, late |-> FALSE, onA |-> {0, 1}, onB |-> {1}],
    [dropA |-> FALSE, dropB |-> FALSE, late |-> FALSE, onA |-> {0, 5}, onB |-> {2, 3}],
    [dropA |-> TRUE,  dropB |-> FALSE, late |-> TRUE,  onA |-> {0},    onB |-> {3}],
    [dropA |-> FALSE, dropB |-> TRUE,  late |-> FALSE, onA |-> {0},    onB |-> {}] }
=============================================================================
