--------------------------- MODULE MCYamlRequests ---------------------------
(* Instances of YamlRequests for TLC.                                      *)
EXTENDS YamlRequests, TLC

CONSTANTS c1, c2, y  \* two command lines, and the one line of a YAML text

MCCmds == {c1, c2, y, EmptyLine, BlankLine}
MCBody == <<y>>

Text(sections, env) == [parses |-> TRUE, sections |-> sections, env |-> env]
KeyIs(value) == <<[key |-> "KEY", value |-> value]>>

(* Texts with an empty script, which cannot be run; with blanks alone; and *)
(* with a section after the script, that has an item of two lines. Their   *)
(* variable is a text or a number; one that no process can have comes from *)
(* the file, where a name may have a "=" in it, until it is cleared.       *)
MCConfigs ==
  {Text("script" :> <<>>, KeyIs("number")),
   Text("script" :> <<<<BlankLine>>>>, KeyIs("text")),
   Text("script" :> <<<<c1>>>> @@ "after_script" :> <<<<c2, c1>>>>, KeyIs("number"))}

(* Request threads are interchangeable. For safety only.                   *)
Symmetry == Permutations(Threads)

=============================================================================
