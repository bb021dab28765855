-------------------------------- MODULE MCTui --------------------------------
(* Small instances of Tui: a namespace n with the agents e and w, a message *)
(* for each, and a run of each.  Each use is a handful of keys.            *)
EXTENDS Tui

MCStart ==
  [namespaces |-> <<"n">>,
   agents |-> <<[namespace |-> "n", id |-> "e", state |-> "running"],
                [namespace |-> "n", id |-> "w", state |-> "running"]>>,
   schedules |-> <<[namespace |-> "n", id |-> "daily", agent |-> "e"]>>,
   messages |-> <<[Message("n", 2, "", "e") EXCEPT !.status = "leased", !.run = 2],
                  [Message("n", 1, "e", "w") EXCEPT !.thread = 2]>>,
   runs |-> <<[namespace |-> "n", id |-> 2, agent |-> "e", message |-> 2, status |-> "running"],
              [namespace |-> "n", id |-> 1, agent |-> "w", message |-> 0, status |-> "finished"]>>,
   steps |-> <<[namespace |-> "n", run |-> 2, message |-> 2, agent |-> "e", index |-> 1]>>]

\* Auto refresh begins when it has been turned off and on.
Begun == <<{"u"}, {"u"}>>

MCUses ==
  {Begun \o <<{"2"}, {"/"}, {"w"}, {"enter"}, {"down", "ctrl+r", "x"}>>,      \* a filter
   Begun \o <<{"2", "4"}, {"down", "x"}, {"x", "enter"}, {"enter", "esc"}>>,  \* prompts
   Begun \o <<{"3"}, {"down"}, {"ctrl+r", "enter"}, {"enter", "esc", "up"}>>, \* mailbox and threads
   Begun \o <<{"4"}, {"m", "p", "right"}, {"esc", "t", "r", "/"}>>,           \* runs, steps
   <<{"u", "shift+tab"}, {"u", "esc"}, {"s", "u", "left", "q"}>>}             \* places
=============================================================================
