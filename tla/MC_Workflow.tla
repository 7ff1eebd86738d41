---------------------------- MODULE MC_Workflow ----------------------------
(* Workflows of up to four roles at two depths, with a user who changes packages *)
(* and gives commands.                                                           *)
EXTENDS Workflow

CONSTANTS m1, m2

\* Names: a workflow, a contact, agents a and b, an agent that is nowhere, and
\* versions of the workflow and of a.
MCNames == {"wf", "ann", "a", "b", "ghost", "wf#1#id", "a#1"}
MCHashes == [n \in MCNames |-> CASE n = "wf#1#id" -> 2 [] n = "a#1" -> 1 [] OTHER -> 0]
MCPlain  == [n \in MCNames |-> CASE n = "wf#1#id" -> "wf" [] n = "a#1" -> "a" [] OTHER -> n]

Part(name, roles, filter) ==
  [name |-> name, roles |-> roles, filter |-> filter, section |-> "fine"]

One(k, a) == [j \in {k} |-> a]

\* Key t is that of a role, of a sub workflow and of a role in it; sub workflow s
\* has a role s, but not its own name.
Good ==
  [p \in {<< >>, <<"t">>, <<"s">>} |->
     CASE p = << >> -> Part("wf", [k \in {"r", "t"} |-> IF k = "r" THEN "a" ELSE "b"], "r")
       [] p = <<"t">> -> Part("t", One("t", "b"), "no filter")
       [] p = <<"s">> -> Part("other", One("s", "a"), "no filter")]

\* The filter names no role; the second agent cannot be loaded; there are no roles.
Invalid == [p \in {<< >>} |-> Part("wf", One("r", "b"), "z")]
Unmanned == [p \in {<< >>} |-> Part("wf", [k \in {"r", "t"} |-> IF k = "r" THEN "a" ELSE "ghost"], "no filter")]
Empty == [p \in {<< >>} |-> Part("wf", [k \in {} |-> "a"], "no filter")]

Environed == [p \in {<< >>} |-> [Good[<< >>] EXCEPT !.section = "enviroment"]]

MCConfig ==
  [c \in {"good", "invalid", "unmanned", "environed", "empty"} |->
     CASE c = "good" -> Good
       [] c = "invalid" -> Invalid
       [] c = "unmanned" -> Unmanned
       [] c = "empty" -> Empty
       [] c = "environed" -> Environed]

MCPackages ==
  [x \in Kinds \X Envs \X {"wf", "ann", "a", "b", "ghost"} |->
     CASE x = <<"workflows", "system", "wf">> -> "good"
       [] x \in {<<"agents", "system", "a">>, <<"agents", "user", "b">>} -> "agent"
       [] OTHER -> "none"]

MCEditable ==
  [package : {<<"workflows", "user", "wf">>}, to : {"invalid", "unmanned", "environed", "empty"}]
  \cup [package : {<<"agents", "user", "a">>}, to : {"custom", "broken"}]

To(target, body, mentioned) == [target |-> target, body |-> body, mentioned |-> mentioned]

MCMails ==
  [m \in {m1, m2} |->
     {To(t, "plain", FALSE) : t \in
        IF m = m1
        THEN {<<"wf">>, <<"wf", "r">>, <<"wf", "t">>, <<"wf", "s">>, <<"wf", "t", "t">>,
              <<"wf", "x", "r">>, <<"a#1">>, <<"ann">>, <<"ghost">>}
        ELSE {<<"wf">>, <<"wf#1#id">>, <<"a">>}}
     \cup IF m = m1
          THEN {To(<<"wf">>, "plain", TRUE), To(<<"wf", "s", "s">>, "braces", FALSE),
                To(<<"wf", "t", "t">>, "no topic", FALSE)}
          ELSE {}]
=============================================================================
