------------------------------ MODULE Translator ------------------------------
(***************************************************************************)
(* i18n: the default translator, filled once with the built-in messages,   *)
(* then extended from files while requests translate; and the choice of a  *)
(* language from an Accept-Language header.                                *)
(*                                                                         *)
(* A language tag is <<base, region>>, with "" for no region.  Messages    *)
(* are told apart by where they come from.  Three kinds of keys stand for  *)
(* the built-in ones and the service's own: "common" is in every built-in  *)
(* table, "partial" is missing in the Kazakh one, "own" in all.            *)
(***************************************************************************)
EXTENDS Integers, Sequences

CONSTANTS
  Tags,       \* language tags a client may send
  Files,      \* files of LoadFromFS in order: [lang, keys, parses]
  MaxHeader   \* bound: tags in a header

DefaultLang == "ru"
SupportedLangs == {"ru", "kk", "en"}
Keys == {"common", "partial", "own"}
Raw == "key"   \* T returns the key itself

VARIABLES
  messages,   \* messages[lang][key]: "none", "built-in" or "file"
  i18nPc,     \* LoadDefaults and LoadFromFS: "ru", "kk", "en", "files", "done"
  nextFile,
  header,     \* Accept-Language of the request
  shown       \* what the last T returned: [lang, key, msg]

i18nVars == <<messages, i18nPc, nextFile, header, shown>>

\* The tables of LoadDefaults.
Defaults(lang) == IF lang = "kk" THEN {"common"} ELSE {"common", "partial"}

NothingShown == [lang |-> DefaultLang, key |-> "common", msg |-> "none"]

TranslatorInit ==
  /\ messages = [l \in SupportedLangs |-> [k \in Keys |-> "none"]]
  /\ i18nPc = "ru" /\ nextFile = 1 /\ shown = NothingShown
  /\ header \in UNION {[1..n -> Tags] : n \in 0..MaxHeader}

\* Mutant: the new map replaces the old one.
SetMessagesReplaces(lang, ks, source) ==
  messages' = [messages EXCEPT ![lang] =
                 [k \in Keys |-> IF k \in ks THEN source ELSE "none"]]

\* SetMessages merges into what the language has.
SetMessages(lang, ks, source) ==
  messages' = [messages EXCEPT ![lang] =
                 [k \in Keys |-> IF k \in ks THEN source ELSE @[k]]]

\* LoadDefaults, inside once.Do: one SetMessages after the other.
LoadDefaults ==
  /\ i18nPc \in SupportedLangs
  /\ SetMessages(i18nPc, Defaults(i18nPc), "built-in")
  /\ i18nPc' = CASE i18nPc = "ru" -> "kk" [] i18nPc = "kk" -> "en"
                 [] OTHER -> "files"
  /\ UNCHANGED <<nextFile, header, shown>>

\* LoadFromFS: file by file; the first that does not parse ends the load and
\* leaves the earlier ones in place.
LoadFromFS ==
  /\ i18nPc = "files"
  /\ IF nextFile \notin DOMAIN Files
     THEN i18nPc' = "done" /\ UNCHANGED <<messages, nextFile>>
     ELSE IF ~Files[nextFile].parses
     THEN i18nPc' = "done" /\ UNCHANGED <<messages, nextFile>>
     ELSE /\ SetMessages(Files[nextFile].lang, Files[nextFile].keys, "file")
          /\ nextFile' = nextFile + 1 /\ UNCHANGED i18nPc
  /\ UNCHANGED <<header, shown>>

\* normalizeLang
NormalizeLang(tag) ==
  IF tag[1] \in SupportedLangs THEN tag[1] ELSE DefaultLang

\* ParseAcceptLanguage: the first tag that does not normalise to the default
\* language, or is the default language without a region.
ParseAcceptLanguage(h) ==
  LET fits == {i \in DOMAIN h : \/ NormalizeLang(h[i]) # DefaultLang
                                \/ h[i] = <<DefaultLang, "">>}
  IN  IF fits = {} THEN DefaultLang
      ELSE NormalizeLang(h[CHOOSE i \in fits : \A j \in fits : i <= j])

\* T: the language asked for, then the default language, then the key.
Message(lang, key) ==
  IF lang \in DOMAIN messages /\ messages[lang][key] # "none"
  THEN messages[lang][key]
  ELSE IF messages[DefaultLang][key] # "none" THEN messages[DefaultLang][key]
  ELSE Raw

\* A request translates through Default(), which waits for LoadDefaults.
Translate ==
  /\ i18nPc \in {"files", "done"}
  /\ \E key \in Keys :
       LET lang == ParseAcceptLanguage(header) IN
       shown' = [lang |-> lang, key |-> key, msg |-> Message(lang, key)]
  /\ UNCHANGED <<messages, i18nPc, nextFile, header>>

TranslatorNext == LoadDefaults \/ LoadFromFS \/ Translate

TranslatorSpec == TranslatorInit /\ [][TranslatorNext]_i18nVars

-----------------------------------------------------------------------------
(* Properties                                                              *)

\* No client sees the raw key of a built-in message, in any language, while
\* files are loaded or after a load that failed half way (T, SetMessages).
NeverRawKey == shown.key # "own" => shown.msg # Raw

\* The inductive invariant: once the table of the default language is loaded it
\* has every built-in key, and no later load takes one away.
TranslatorInv ==
  /\ messages \in [SupportedLangs -> [Keys -> {"none", "built-in", "file"}]]
  /\ i18nPc \in SupportedLangs \cup {"files", "done"}
  /\ i18nPc # "ru" =>
       \A k \in Keys \ {"own"} : messages[DefaultLang][k] # "none"
  /\ NeverRawKey
=============================================================================
