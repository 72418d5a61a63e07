---------------------------- MODULE YamlCommands ----------------------------
(***************************************************************************)
(* From a YAML text to a list of command lines: YamlCommandsSplitter of    *)
(* src/rest/utils/yaml_cmds_splitter.py, and what the handlers that use it *)
(* do with its result (src/rest/api/routes.py).                            *)
(*                                                                         *)
(* A section is a sequence of items, and an item a sequence of lines: an   *)
(* item of a YAML list may be a text of several lines. A section that is a *)
(* text and not a list is the sequence of its characters.                  *)
(***************************************************************************)
EXTENDS Naturals, Sequences, FiniteSets
Seqs == INSTANCE SequencesExt

CONSTANTS
  EmptyLine,  \* the line without characters
  BlankLine   \* a line of blanks only

(* Mutant of InOrderFields: what follows the script comes before it.       *)
InOrderFieldsSwapped ==
  <<"before_install", "install", "after_install", "before_script", "after_script", "script">>

InOrderFields ==
  <<"before_install", "install", "after_install", "before_script", "script", "after_script">>

MandatoryField == "script"
Fields == {InOrderFields[i] : i \in DOMAIN InOrderFields}

(* __check_config.                                                         *)
IsComplete(sections) ==
  /\ MandatoryField \in DOMAIN sections
  /\ sections[MandatoryField] # <<>>

ItemsOf(sections, field) == IF field \in DOMAIN sections THEN sections[field] ELSE <<>>

CmdsInOrder(sections) ==
  Seqs!FlattenSeq([i \in DOMAIN InOrderFields |-> ItemsOf(sections, InOrderFields[i])])

(* The items joined with newlines, and split at newlines.                  *)
Lines(sections) == Seqs!FlattenSeq(CmdsInOrder(sections))

(* Whoever runs lines strips them first. The lines of Cmds have no blanks  *)
(* around them, except for the one that has nothing else.                  *)
Strip(line) == IF line = BlankLine THEN EmptyLine ELSE line

(* execute_command and cmd_detached_start take the body of the request when*)
(* the text that they are given is empty: here the YAML text, line by line.*)
(* A line of blanks is not empty there, and runs as the empty command.     *)
Commands(sections, body) ==
  LET lines == IF Lines(sections) = <<EmptyLine>> THEN body ELSE Lines(sections) IN
  [i \in DOMAIN lines |-> Strip(lines[i])]

---------------------------------------------------------------------------
(* The same, without sequences of sequences: a line is at <<f, i, j>> when *)
(* it is the j-th of the i-th item of section f, and these places are      *)
(* ordered section first.                                                  *)

Order == [before_install |-> 1, install |-> 2, after_install |-> 3,
          before_script |-> 4, script |-> 5, after_script |-> 6]

Places(sections) ==
  UNION {UNION {{<<f, i, j>> : j \in DOMAIN sections[f][i]} : i \in DOMAIN sections[f]} :
           f \in DOMAIN sections}

LineAt(sections, p) == sections[p[1]][p[2]][p[3]]

NotAfter(p, q) ==
  \/ Order[p[1]] < Order[q[1]]
  \/ p[1] = q[1] /\ p[2] < q[2]
  \/ p[1] = q[1] /\ p[2] = q[2] /\ p[3] <= q[3]

Rank(sections, p) == Cardinality({q \in Places(sections) : NotAfter(q, p)})

=============================================================================
