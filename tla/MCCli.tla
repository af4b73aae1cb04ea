-------------------------------- MODULE MCCli --------------------------------
(***************************************************************************)
(* Instances of Cli for TLC: three states of the machine, a device that is *)
(* disabled or not and a blacklist that is in one file or in the other.    *)
(***************************************************************************)
EXTENDS Cli, TLC

Wifi == [model |-> "8086:2723", serial |-> "none", position |-> "0-1", path |-> "p1",
         mechanism |-> "unbind", suspended |-> FALSE]
Blacklist == [keyword |-> "blacklist", module |-> "iwlwifi", argument |-> "none"]
Remark == [keyword |-> "comment", module |-> "none", argument |-> "none"]

Plain == [entries |-> {}, files |-> 1 :> <<Blacklist>> @@ 2 :> <<Remark>>]
Disabled == [Plain EXCEPT !.entries = {Wifi}]
Moved == [Disabled EXCEPT !.files = 1 :> <<Remark>> @@ 2 :> <<Blacklist>>]

States == {Plain, Disabled, Moved}
\* A whole id, a prefix of two, the empty word, and a word no id begins with.
Whole == {Plain}
Short == {Disabled, Moved}
Wrong == {}
Cmd(verb, words) == [verb |-> verb, words |-> words]
SomeCommands ==
    {Cmd(verb, <<>>) : verb \in {"list", "history", "create", "unknown", "restore"}}
      \cup {Cmd(verb, <<word>>) : verb \in {"diff", "preview", "restore", "delete"},
                                  word \in {Whole, Short, EmptyWord, Wrong}}
      \cup {Cmd("diff", <<Whole, Short>>), Cmd("diff", <<Short, Wrong>>), Cmd("delete", <<Whole, Short>>)}
Restores == {Cmd("restore", <<{i}>>) : i \in States}
Shows == {Cmd("preview", <<{i}>>) : i \in States}
NoFuture == {}
=============================================================================
