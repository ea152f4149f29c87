----------------------------- MODULE MCH2Client -----------------------------
(***************************************************************************)
(* Small instances of the HTTP/2 client and its peer, as scenes: a program *)
(* of calls and a peer of some habits.                                     *)
(***************************************************************************)
EXTENDS H2Client

Mailbox   == {<<"stream", "middle">>}
Anything  == {"stream", "into"} \X {"middle", "last"}

\* A peer that keeps to the protocol, and a mailbox that may be full.
Lawful ==
  [bodies |-> {2}, kinds |-> {"stream"}, refuses |-> Mailbox,
   inits |-> {0, 2}, replies |-> {0, 2},
   does |-> {"settings", "grant", "info", "trailers"}, turns |-> 2]
\* Everything that cuts an exchange short.
Rude ==
  [bodies |-> {0, 2}, kinds |-> {"stream"},
   refuses |-> {<<"stream", "middle">>, <<"stream", "last">>},
   inits |-> {1}, replies |-> {0, 2},
   does |-> {"goaway", "reset", "cut", "info"}, turns |-> 2]
\* The same before the request has ended.
Hasty == [Rude EXCEPT !.bodies = {2}, !.turns = 1,
                      !.does = {"early", "goaway", "reset", "cut"}]
\* Increments without bound, and a sink that fails.
Overgranting ==
  [bodies |-> {2}, kinds |-> {"stream", "into"}, refuses |-> Anything,
   inits |-> {2}, replies |-> {1},
   does |-> {"settings", "overgrant"}, turns |-> 2]
\* Both receivers, and a mailbox that may be full.
Sinks ==
  [bodies |-> {0, 2}, kinds |-> {"stream", "into"}, refuses |-> Mailbox,
   inits |-> {0, 2}, replies |-> {0, 2},
   does |-> {"settings", "reset", "info", "goaway"}, turns |-> 1]
\* A link that is lost while settings, increments and pings cross the request.
Lost ==
  [bodies |-> {2}, kinds |-> {"stream"}, refuses |-> {}, inits |-> {0, 3},
   replies |-> {0, 2}, does |-> {"settings", "grant", "cut", "ping"},
   turns |-> 1]
\* Frames the client does not support, and PRIORITY, anywhere in an exchange.
Strange ==
  [bodies |-> {0, 2}, kinds |-> {"stream", "into"}, refuses |-> {},
   inits |-> {1}, replies |-> {0, 2}, does |-> {"unsupported"}, turns |-> 1]
\* A peer that serves, over a link that may be lost.
Served ==
  [bodies |-> {0, 2}, kinds |-> {"stream", "into"}, refuses |-> Mailbox,
   inits |-> {0, 2}, replies |-> {0, 2},
   does |-> {"settings", "cut", "reset", "ping"}, turns |-> 1]
\* A GOAWAY while the client waits for credit.
Leaving ==
  [bodies |-> {2}, kinds |-> {"stream"}, refuses |-> {}, inits |-> {0},
   replies |-> {0}, does |-> {"goaway"}, turns |-> 1]
\* A mailbox that refuses last chunks.
Refusing ==
  [bodies |-> {0}, kinds |-> {"stream"}, refuses |-> {<<"stream", "last">>},
   inits |-> {0}, replies |-> {2}, does |-> {}, turns |-> 0]

MCSafe     == {Lawful, Rude, Hasty, Overgranting, Sinks, Lost, Strange}
MCServed   == {Served}
MCLeaving  == {Leaving}
MCRefusing == {Refusing}
=============================================================================
