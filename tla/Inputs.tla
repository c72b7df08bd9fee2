------------------------------- MODULE Inputs -------------------------------
(***************************************************************************)
(* The parts of the program that turn input into something else and keep   *)
(* nothing in between: pages, configuration, the binding of requests, and  *)
(* the generator, whose document is of the structs that are bound.  Only   *)
(* the last two meet.  A behaviour is about one subject.                   *)
(***************************************************************************)
EXTENDS Page, Config, BindingDocs, Gen

VARIABLE subject

inputVars == <<subject, vars, configVars, bindVars, genVars>>

InputsInit ==
  /\ subject \in {"page", "config", "binding", "gen"}
  /\ Init /\ (subject # "page" => table = {})
  /\ ConfigInit /\ GenInit
  /\ BindInit /\ (subject # "binding" => struct = CHOOSE s \in Structs : TRUE)

ReadPages ==
  /\ subject = "page" /\ Next
  /\ UNCHANGED <<subject, configVars, bindVars, genVars>>

Configure ==
  /\ subject = "config" /\ ConfigNext
  /\ UNCHANGED <<subject, vars, bindVars, genVars>>

Bind ==
  /\ subject = "binding" /\ BindNext
  /\ UNCHANGED <<subject, vars, configVars, genVars>>

Generate ==
  /\ subject = "gen" /\ GenNext
  /\ UNCHANGED <<subject, vars, configVars, bindVars>>

InputsNext == ReadPages \/ Configure \/ Bind \/ Generate

InputsSpec == InputsInit /\ [][InputsNext]_inputVars
=============================================================================
