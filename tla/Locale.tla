-------------------------------- MODULE Locale --------------------------------
(***************************************************************************)
(* The texts of the bot in the languages it knows (locale/locale.go).  A   *)
(* bundle maps a language to its keys and a key to a list of texts or to a *)
(* template: a sequence of parts, each of them text or the name of a       *)
(* variable.  A dotted key is one key here.                                *)
(***************************************************************************)
EXTENDS Sequences, SequencesExt

CONSTANTS
  Bundle,       \* language -> key -> [list : sequence of texts] or [template : parts]
  FallbackLang  \* fallbackLang

\* A part of a template.
Fixed(text) == [text |-> text]
Var(name)   == [var |-> name]

Has(lang) == lang \in DOMAIN Bundle

\* lookup: the entry, if there is one.
Lookup(lang, key) ==
  IF Has(lang) /\ key \in DOMAIN Bundle[lang] THEN {Bundle[lang][key]} ELSE {}

\* lookupString: an entry that is no template does not count.
Templates(lang, key) == {e \in Lookup(lang, key) : "template" \in DOMAIN e}

\* interpolate: one pass over the template.  A value is never looked at again,
\* and a variable nobody gave keeps its placeholder.
Interpolate(template, vars) ==
  FlattenSeq([i \in DOMAIN template |->
    LET part == template[i]
    IN  CASE "text" \in DOMAIN part -> part.text
          [] "var" \in DOMAIN part /\ part.var \in DOMAIN vars -> vars[part.var]
          [] OTHER -> <<"%", "{", part.var, "}">>])

\* T: in the language, else in the fallback language, else the key itself.
T(lang, key, vars) ==
  LET own   == Templates(lang, key)
      found == IF own # {} THEN own ELSE Templates(FallbackLang, key)
  IN  IF found = {} THEN <<key>>
      ELSE Interpolate((CHOOSE e \in found : TRUE).template, vars)

\* List has no fallback: nothing in another language's stead.
List(lang, key) ==
  UNION {{e.list[i] : i \in DOMAIN e.list} :
           e \in {e \in Lookup(lang, key) : "list" \in DOMAIN e}}

\* Random, as the set of its outcomes.
Random(lang, key) == IF List(lang, key) = {} THEN {<<>>} ELSE List(lang, key)
=============================================================================
