------------------------------- MODULE Config -------------------------------
(***************************************************************************)
(* config/parser.go: one scalar of a configuration, from the text of the   *)
(* file to the field of a struct it is decoded into.  processNode treats   *)
(* the scalars of a document one by one, and none affects another.         *)
(*                                                                         *)
(* A text is a sequence of tokens: "$", "{", "}", ":" and words.  The file *)
(* is written as parts, each of them plain text or a placeholder; the code *)
(* sees the tokens only.                                                   *)
(***************************************************************************)
EXTENDS Naturals, Sequences, SequencesExt

CONSTANTS
  Vars,         \* names of environment variables, which are words
  Values,       \* what they can be set to, texts; <<>> is unset
  Parts,        \* [var, text]: text itself, or ${var:text}
  MaxParts      \* bound on the parts of the scalar

PlainText == "plain"    \* the var of a part that is no placeholder

\* The braces of a placeholder.
Opening == "{"
Closing == "}"

ASSUME ConfigAssumption ==
  /\ Vars \subseteq STRING /\ PlainText \notin Vars
  /\ Values \subseteq Seq(STRING) /\ <<>> \in Values
  /\ Parts \subseteq [var : Vars \cup {PlainText}, text : Seq(STRING) \ {<<>>}]
  /\ MaxParts \in Nat

VARIABLES
  env,          \* the environment
  written,      \* the scalar as it stands in the file, a sequence of parts
  loaded        \* what the last LoadConfig has done with it

configVars == <<env, written, loaded>>

Kinds == {"string", "int"}
NotLoaded == [done |-> FALSE, quoted |-> FALSE, kind |-> "string",
              err |-> FALSE, value |-> <<>>]

Text(p) ==
  IF p.var = PlainText THEN p.text
  ELSE <<"$", Opening, p.var, ":">> \o p.text \o <<Closing>>
FileText == FlattenSeq([i \in DOMAIN written |-> Text(written[i])])

-----------------------------------------------------------------------------
(* expandEnvVars                                                            *)

\* re: where the match of \$\{(\w+):([^}]+)\} at position i of s ends, or 0.
MatchEnd(s, i) ==
  LET ends == {j \in i + 5 .. Len(s) : s[j] = Closing /\ \A k \in i + 4 .. j - 1 : s[k] # Closing}
  IN  IF /\ ends # {}
         /\ s[i] = "$" /\ s[i + 1] = Opening /\ s[i + 2] \in Vars /\ s[i + 3] = ":"
      THEN CHOOSE j \in ends : TRUE
      ELSE 0

\* FindAllStringSubmatch: from left to right, none inside another.
FindAll(s) ==
  LET find[i \in 1 .. Len(s) + 1] ==
        IF i > Len(s) THEN <<>>
        ELSE IF MatchEnd(s, i) = 0 THEN find[i + 1]
        ELSE <<SubSeq(s, i, MatchEnd(s, i))>> \o find[MatchEnd(s, i) + 1]
  IN  find[1]

\* strings.ReplaceAll
ReplaceText(s, old, new) ==
  LET at(i) == i + Len(old) - 1 <= Len(s) /\ SubSeq(s, i, i + Len(old) - 1) = old
      replace[i \in 1 .. Len(s) + 1] ==
        IF i > Len(s) THEN <<>>
        ELSE IF at(i) THEN new \o replace[i + Len(old)]
        ELSE <<s[i]>> \o replace[i + 1]
  IN  replace[1]

Getenv(name, fallback) == IF env[name] = <<>> THEN fallback ELSE env[name]

\* The matches of the original text, one after another in the whole of what
\* the earlier ones have left.
ExpandEnvVars(s) ==
  LET matches == FindAll(s)
      expanded[k \in 0 .. Len(matches)] ==
        IF k = 0 THEN s
        ELSE LET match == matches[k]
             IN  ReplaceText(expanded[k - 1], match,
                             Getenv(match[3], SubSeq(match, 5, Len(match) - 1)))
  IN  expanded[Len(matches)]

-----------------------------------------------------------------------------
(* LoadConfig                                                               *)

\* The tag yaml gives to a scalar: a quoted one is a string.
Resolve(quoted, text) ==
  CASE quoted -> "!!str"
    [] ~quoted /\ text = <<"null">> -> "!!null"
    [] ~quoted /\ \A i \in DOMAIN text : text[i] = "8" -> "!!int"
    [] OTHER -> "!!str"

\* Mutation: the tag is kept.
ProcessNodeKeepsTag(node) ==
  IF node.tag # "!!str" THEN node
  ELSE [node EXCEPT !.value = ExpandEnvVars(node.value)]

\* A value that changed loses its tag.
ProcessNode(node) ==
  IF node.tag # "!!str" THEN node
  ELSE LET value == ExpandEnvVars(node.value)
       IN  [node EXCEPT !.value = value,
                        !.tag = IF value # node.value THEN "" ELSE node.tag]

\* Marshal writes the node so that its tag, if it has one, is found again.
Remarshal(node) ==
  [node EXCEPT !.quoted = node.quoted \/ (node.tag = "!!str" /\
                            Resolve(FALSE, node.value) # "!!str")]

\* Unmarshal into a field: a string takes what any scalar says, null is zero.
Decode(tag, kind, text) ==
  CASE tag = "!!null" -> [err |-> FALSE, value |-> <<>>]
    [] tag = "!!int" \/ (tag = "!!str" /\ kind = "string") ->
         [err |-> FALSE, value |-> text]
    [] OTHER -> [err |-> TRUE, value |-> <<>>]

Load(quoted, kind, text) ==
  LET node == [quoted |-> quoted, tag |-> Resolve(quoted, text), value |-> text]
      new == Remarshal(ProcessNode(node))
  IN  Decode(Resolve(new.quoted, new.value), kind, new.value)

-----------------------------------------------------------------------------
ConfigInit ==
  /\ env = [v \in Vars |-> <<>>]
  /\ written = <<>> /\ loaded = NotLoaded

\* Before the file is read.
Setenv(v, value) ==
  /\ env[v] # value /\ written = <<>>
  /\ env' = [env EXCEPT ![v] = value]
  /\ UNCHANGED <<written, loaded>>

\* A plain scalar does not begin with a brace.
Write(p) ==
  /\ Len(written) < MaxParts /\ ~loaded.done
  /\ written = <<>> => Text(p)[1] \notin {Opening, Closing}
  /\ written' = Append(written, p)
  /\ UNCHANGED <<env, loaded>>

LoadConfig(quoted, kind) ==
  /\ written # <<>> /\ ~loaded.done
  /\ LET new == Load(quoted, kind, FileText)
     IN  loaded' = [done |-> TRUE, quoted |-> quoted, kind |-> kind,
                    err |-> new.err, value |-> new.value]
  /\ UNCHANGED <<env, written>>

ConfigNext ==
  \/ \E v \in Vars, value \in Values : Setenv(v, value)
  \/ \E p \in Parts : Write(p)
  \/ \E quoted \in BOOLEAN, kind \in Kinds : LoadConfig(quoted, kind)

ConfigSpec == ConfigInit /\ [][ConfigNext]_configVars

-----------------------------------------------------------------------------
\* What takes the place of a part.
Meaning(p) == IF p.var = PlainText THEN p.text ELSE Getenv(p.var, p.text)

\* What a placeholder begins with.
Opens(s, i) == i + 1 \in DOMAIN s /\ s[i] = "$" /\ s[i + 1] = Opening

\* No placeholder comes out of the plain text and the values that are put in,
\* nor is there one inside another.
PlainValues ==
  \A i \in DOMAIN written :
    LET p == written[i]
    IN  /\ \A text \in {p.text, Meaning(p)} : \A j \in DOMAIN text : ~Opens(text, j)
        /\ Meaning(p)[1] # Opening
        /\ p.var # PlainText => Closing \notin ToSet(p.text)

\* A file with placeholders loads as if the value of each had been written in
\* its place, with the type it then has, although one is substituted after the
\* other in the whole text, and the document is written and read once more.
ConfigLoadsAsWritten ==
  loaded.done /\ PlainValues =>
    LET text == FlattenSeq([i \in DOMAIN written |-> Meaning(written[i])])
        direct == Decode(Resolve(loaded.quoted, text), loaded.kind, text)
    IN  loaded.err = direct.err /\ loaded.value = direct.value
=============================================================================
