----------------------------- MODULE Catalogue ------------------------------
(***************************************************************************)
(* What the books service promises to its clients and to whoever consumes  *)
(* its events: a book comes once, is announced only when it is there, and  *)
(* goes once; nobody is told what is not so, nor told twice; and a service *)
(* that ends cleanly owes no event but to those it told of a failure.      *)
(***************************************************************************)
CONSTANT Books

VARIABLES
  added,        \* the books that came
  gone,         \* of them, those that went
  announced,    \* the books there is an event of
  told,         \* of each book, what who added it was told
  toldGone,     \* the books somebody was told the end of
  over          \* "no", or how the service ended: "clean", "cut off"

absVars == <<added, gone, announced, told, toldGone, over>>

AbsInit ==
  /\ added = {} /\ gone = {} /\ announced = {} /\ toldGone = {}
  /\ told = [b \in Books |-> "none"]
  /\ over = "no"

Add(b) ==
  /\ b \notin added
  /\ added' = added \cup {b}
  /\ UNCHANGED <<gone, announced, told, toldGone, over>>

Announce(b) ==
  /\ b \in added
  /\ announced' = announced \cup {b}
  /\ UNCHANGED <<added, gone, told, toldGone, over>>

Remove(b) ==
  /\ b \in added
  /\ gone' = gone \cup {b}
  /\ UNCHANGED <<added, announced, told, toldGone, over>>

\* Of a failure anybody may be told, also of one that took effect.
Tell(b, what) ==
  /\ told[b] = "none"
  /\ what = "created" => b \in added \cap announced
  /\ told' = [told EXCEPT ![b] = what]
  /\ UNCHANGED <<added, gone, announced, toldGone, over>>

TellGone(b) ==
  /\ b \in gone
  /\ toldGone' = toldGone \cup {b}
  /\ UNCHANGED <<added, gone, announced, told, over>>

End(how) ==
  /\ over' = how
  /\ how = "clean" => \A b \in added \ announced : told[b] = "failed"
  /\ UNCHANGED <<added, gone, announced, told, toldGone>>

AbsNext ==
  /\ over = "no"
  /\ \/ \E b \in Books :
          \/ Add(b) \/ Announce(b) \/ Remove(b) \/ TellGone(b)
          \/ \E what \in {"created", "failed"} : Tell(b, what)
     \/ \E how \in {"clean", "cut off"} : End(how)

AbsSpec == AbsInit /\ [][AbsNext]_absVars
=============================================================================
