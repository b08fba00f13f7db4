-------------------------------- MODULE Config --------------------------------
(***************************************************************************)
(* config.Load: a configuration struct is filled from a YAML file and then *)
(* field by field from the environment and from the defaults in its tags.  *)
(* Nested structs are flattened in the order in which processStruct visits *)
(* them.                                                                   *)
(*                                                                         *)
(* A text (of the environment or a tag) is empty, a decimal number or some *)
(* other word; the value of a field is a number or a word.  IntWidth is    *)
(* the width in bits of the narrow integer kinds.                          *)
(***************************************************************************)
EXTENDS Integers, Sequences

CONSTANTS
  Fields,     \* sequence of [kind, env, default]: the struct and its tags
  Numbers,    \* the numbers written in the file and the environment
  IntWidth

Kinds == {"string", "int", "narrow", "slice", "other"}

Empty == [num |-> FALSE, val |-> 0]
Word == [num |-> FALSE, val |-> 1]
Number(n) == [num |-> TRUE, val |-> n]
Texts == {Empty, Word} \cup {Number(n) : n \in Numbers}

ASSUME ConfigAssumption ==
  /\ Numbers \subseteq Int /\ IntWidth \in Nat \ {0}
  /\ Fields \in Seq([kind : Kinds, env : BOOLEAN,
                     default : [num : BOOLEAN, val : Int]])

VARIABLES
  file,      \* "absent", "unreadable", "broken" or "read"
  yaml,      \* values in the file; a field it does not mention is Empty
  environ,   \* os.Getenv of each field's variable
  cfg,       \* the struct
  field,     \* the field processStruct is at
  loadPc

configVars == <<file, yaml, environ, cfg, field, loadPc>>

Numeric(i) == Fields[i].kind \in {"int", "narrow"}
Zero(i) == IF Numeric(i) THEN Number(0) ELSE Empty

\* What a file can hold for a field.
FileValues(i) ==
  {Empty} \cup IF Numeric(i) THEN {Number(1)} ELSE {Word}

ConfigInit ==
  /\ file \in {"absent", "unreadable", "broken", "read"}
  /\ yaml \in [DOMAIN Fields -> {Empty, Word, Number(1)}]
  /\ \A i \in DOMAIN Fields : yaml[i] \in FileValues(i)
  /\ file # "read" => \A i \in DOMAIN Fields : yaml[i] = Empty
  /\ environ \in [DOMAIN Fields -> Texts]
  /\ \A i \in DOMAIN Fields : ~Fields[i].env => environ[i] = Empty
  /\ cfg = [i \in DOMAIN Fields |-> Zero(i)]
  /\ field = 1 /\ loadPc = "file"

\* Load: a missing file is no error.
ReadConfigFile ==
  /\ loadPc = "file"
  /\ loadPc' = IF file \in {"unreadable", "broken"} THEN "error" ELSE "fields"
  /\ cfg' = [i \in DOMAIN Fields |->
               IF file = "read" /\ yaml[i] # Empty THEN yaml[i] ELSE cfg[i]]
  /\ UNCHANGED <<file, yaml, environ, field>>

\* reflect's SetInt keeps the low bits.
Narrow(n) ==
  LET half == 2 ^ (IntWidth - 1) IN ((n + half) % (2 * half)) - half

\* setField: the value, or none if the text does not parse.  Strings and
\* lists of strings take any text, other kinds are not set at all.
SetField(i, text) ==
  IF Numeric(i) /\ ~text.num THEN {}
  ELSE CASE Fields[i].kind = "other" -> {cfg[i]}
         [] Fields[i].kind = "narrow" -> {Number(Narrow(text.val))}
         [] OTHER -> {text}

\* Mutant: the tag's default is looked at first.
FieldTextDefaultFirst(i) ==
  IF Fields[i].default = Empty THEN environ[i] ELSE Fields[i].default

\* processStruct: the environment variable, or the default of the tag.
FieldText(i) ==
  IF environ[i] = Empty THEN Fields[i].default ELSE environ[i]

\* One iteration of processStruct.  A field without an env tag is skipped,
\* its default included.
ProcessField ==
  /\ loadPc = "fields" /\ field \in DOMAIN Fields
  /\ IF ~Fields[field].env \/ FieldText(field) = Empty
     THEN UNCHANGED <<cfg, loadPc>>
     ELSE \/ /\ SetField(field, FieldText(field)) = {}
             /\ loadPc' = "error" /\ UNCHANGED cfg
          \/ \E v \in SetField(field, FieldText(field)) :
               cfg' = [cfg EXCEPT ![field] = v] /\ UNCHANGED loadPc
  /\ field' = field + 1
  /\ UNCHANGED <<file, yaml, environ>>

LoadReturns ==
  /\ loadPc = "fields" /\ field \notin DOMAIN Fields
  /\ loadPc' = "loaded"
  /\ UNCHANGED <<file, yaml, environ, cfg, field>>

ConfigNext == ReadConfigFile \/ ProcessField \/ LoadReturns

ConfigSpec == ConfigInit /\ [][ConfigNext]_configVars

-----------------------------------------------------------------------------
(* Properties                                                              *)

\* The environment overrides file and default: when Load returns, a field
\* with an env tag holds what its variable says, and no variable that does
\* not parse was passed over.  (A number too wide for its field is the
\* exception: setField cuts it.)
EnvironmentWins ==
  loadPc = "loaded" =>
    \A i \in DOMAIN Fields :
      Fields[i].env /\ environ[i] # Empty /\ Fields[i].kind # "other" =>
        \/ cfg[i] = environ[i]
        \/ /\ Fields[i].kind = "narrow" /\ environ[i].num
           /\ Narrow(environ[i].val) # environ[i].val

\* What the repository's README says of the package ("loading of
\* configurations from YAML with override by environment variables"): what
\* the file says holds unless the environment overrides it.
FileHolds ==
  loadPc = "loaded" /\ file = "read" =>
    \A i \in DOMAIN Fields :
      yaml[i] # Empty /\ environ[i] = Empty => cfg[i] = yaml[i]

-----------------------------------------------------------------------------
(* The inductive invariant                                                 *)

\* What the environment says of a field holds.
FieldSet(i) ==
  Fields[i].env /\ environ[i] # Empty /\ Fields[i].kind # "other" =>
    \/ cfg[i] = environ[i]
    \/ /\ Fields[i].kind = "narrow" /\ environ[i].num
       /\ Narrow(environ[i].val) # environ[i].val

\* It does of every field that processStruct has passed.
ConfigInv ==
  /\ environ \in [DOMAIN Fields -> Texts]
  /\ cfg = [i \in DOMAIN Fields |-> cfg[i]]
  /\ field \in 1..(Len(Fields) + 1)
  /\ loadPc \in {"file", "fields", "error", "loaded"}
  /\ loadPc = "file" => field = 1
  /\ loadPc = "loaded" => field = Len(Fields) + 1
  /\ loadPc \in {"fields", "loaded"} =>
       \A i \in DOMAIN Fields : i < field => FieldSet(i)
=============================================================================
