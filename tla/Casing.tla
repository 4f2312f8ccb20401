------------------------------- MODULE Casing -------------------------------
(***************************************************************************)
(* Names and their spellings.  A field is called by its name in the .proto *)
(* file, by the Python name that the compiler chooses                      *)
(* (aristaproto_compiler/casing.py), by the key that to_dict writes, and   *)
(* by what from_dict makes of that key (aristaproto/casing.py): two        *)
(* modules with the same regular expressions for a word, and different     *)
(* rules for snake_case.                                                   *)
(*                                                                         *)
(* A name is a sequence of characters; two letters, one digit and the      *)
(* underscore are as good as all of them.                                  *)
(***************************************************************************)
EXTENDS Naturals, Sequences, SequencesExt, FiniteSetsExt, TLC

Lowers == {"a", "s"}
Uppers == {"A", "S"}
Digits == {"1"}
Letters == Lowers \cup Uppers
Alphabet == Letters \cup Digits \cup {"_"}

LowerOf == ("A" :> "a") @@ ("S" :> "s")
UpperOf == ("a" :> "A") @@ ("s" :> "S")

\* str.lower, and str.capitalize.
Lower(s) == [i \in DOMAIN s |-> IF s[i] \in Uppers THEN LowerOf[s[i]] ELSE s[i]]
First(s, chars, f) == IF s # <<>> /\ s[1] \in chars THEN <<f[s[1]]>> \o Tail(s) ELSE s
Capitalize(s) == First(Lower(s), Lowers, UpperOf)
lowercase_first(s) == First(s, Uppers, LowerOf)

-----------------------------------------------------------------------------
\* The word that starts at i: WORD_UPPER, an upper case word that is not followed by a
\* lower case letter, which takes one letter less when it is, or else WORD.

\* The first position from i on with a character that is not one of chars.
After(s, i, chars) == Min({j \in i .. Len(s) + 1 : j > Len(s) \/ s[j] \notin chars})

\* Mutant: an upper case letter before a lower case one is not left to the next word.
WordEndGreedy(s, i) ==
  LET upper == After(s, i, Uppers)
  IN After(s, IF upper > i THEN upper ELSE After(s, upper, Lowers), Digits)

WordEnd(s, i) ==
  LET followed(upper) == upper <= Len(s) /\ s[upper] \in Lowers
      end(upper) == IF upper > i /\ ~followed(upper) THEN After(s, upper, Digits)
                    ELSE IF upper > i + 1 THEN upper - 1
                    ELSE After(s, After(s, upper, Lowers), Digits)
  IN end(After(s, i, Uppers))

\* re.sub visits the words one after the other, each with the symbols before it.
Words(s) ==
  LET from[i \in 1 .. Len(s) + 1] ==
        LET word(start, end) == <<SubSeq(s, start, end - 1)>> \o from[end]
            next(start) == IF start > Len(s) THEN <<>> ELSE word(start, WordEnd(s, start))
        IN next(After(s, i, {"_"}))
  IN from[1]

\* casing.py of the runtime, and pascal_case of the compiler, with strict=True.
snake_case(s) ==
  LET underscore(i) == IF i = 1 THEN <<>> ELSE <<"_">>
      joined(words) == FlattenSeq([i \in DOMAIN words |-> underscore(i) \o Lower(words[i])])
  IN joined(Words(s))

pascal_case(s) ==
  LET joined(words) == FlattenSeq([i \in DOMAIN words |-> Capitalize(words[i])])
  IN joined(Words(s))
camel_case(s) == lowercase_first(pascal_case(s))

Keyword == <<"a", "s">>

sanitize_name(s) ==
  IF s = Keyword THEN s \o <<"_">>
  ELSE IF s = <<>> \/ s[1] \in Digits THEN <<"_">> \o s
  ELSE s

safe_snake_case(s) == sanitize_name(snake_case(s))

\* casing.snake_case of the compiler: a name with an underscore, or without an upper case
\* letter, is left alone; otherwise an underscore goes before each word and each number.
CompilerSnake(s) ==
  LET at(i, chars) == i \in DOMAIN s /\ s[i] \in chars
      parts(i) == \/ at(i - 1, Lowers \cup Digits) /\ at(i, Uppers)
                  \/ at(i - 1, Uppers) /\ at(i, Uppers) /\ at(i + 1, Lowers)
                  \/ at(i - 1, Letters) /\ at(i, Digits)
      char(i) == (IF parts(i) THEN <<"_">> ELSE <<>>) \o <<s[i]>>
  IN IF \E i \in DOMAIN s : s[i] = "_" THEN s
     ELSE IF \A i \in DOMAIN s : s[i] \notin Uppers THEN s
     ELSE Lower(FlattenSeq([i \in DOMAIN s |-> char(i)]))

pythonize_field_name(s) == sanitize_name(CompilerSnake(s))

\* The key that to_dict writes for a field, and the field that from_dict takes a key for.
KeyOf(name, casing) ==
  LET rstrip(cased) == SubSeq(cased, 1, Max({0} \cup {i \in DOMAIN cased : cased[i] # "_"}))
  IN rstrip(IF casing = "CAMEL" THEN camel_case(name) ELSE snake_case(name))

\* map entries are found by the name of the field without case and underscores.
Reduced(s) == SelectSeq(Lower(s), LAMBDA c : c # "_")
=============================================================================
