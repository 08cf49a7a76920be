--------------------------- MODULE NameValidation ---------------------------
(***************************************************************************)
(* The rules for project names: what POST /v1/projects makes of the text a *)
(* client sends, and the key under which the name is reserved.  A behaviour*)
(* types a text, character by character, and asks about it at every point. *)
(* One character stands for each class the rules tell apart.               *)
(***************************************************************************)
EXTENDS Naturals, SequencesExt, FiniteSets

CONSTANTS
    MinLength,    \* NAME_MIN_LENGTH = 3
    MaxLength,    \* NAME_MAX_LENGTH = 63
    MaxRaw        \* bound on the text that is typed

ASSUME LengthsType == /\ MinLength \in Nat \ {0} /\ MaxLength \in Nat /\ MaxRaw \in Nat
                      /\ MinLength <= MaxLength /\ MaxLength < MaxRaw

VARIABLE raw      \* the text the client sends

Upper == {"A"}
Lower == {"a"}
Space == " "
White == {Space, "tab"}
Inner == {"-", Space}     \* allowed, but not at either end
Other == {"!"}
Alphanumeric == Upper \cup Lower
Char == Alphanumeric \cup White \cup Inner \cup Other

Init == raw = <<>>

Type(c) ==
    /\ Len(raw) < MaxRaw
    /\ raw' = Append(raw, c)

Next == \E c \in Char : Type(c)

Spec == Init /\ [][Next]_raw

-----------------------------------------------------------------------------
Ink(s) == {i \in DOMAIN s : s[i] \notin White}

\* str.strip()
Strip(s) == IF Ink(s) = {} THEN <<>> ELSE SubSeq(s, Min(Ink(s)), Max(Ink(s)))

\* Mutant: only a repeated space is collapsed, other white space stays.
MutSqueeze(done, c) ==
    IF c = Space /\ done # <<>> /\ Last(done) = Space THEN done ELSE Append(done, c)

\* What the next character adds to the text done so far: a run of white space
\* adds one space.
Squeeze(done, c) ==
    IF c \notin White THEN Append(done, c)
    ELSE IF done # <<>> /\ Last(done) = Space THEN done
    ELSE Append(done, Space)

\* re.sub(r"\s+", " ", s)
Collapse(s) ==
    LET done[n \in 0 .. Len(s)] == IF n = 0 THEN <<>> ELSE Squeeze(done[n - 1], s[n])
    IN  done[Len(s)]

normalise_name(s) == Collapse(Strip(s))

\* NAME_PATTERN
MatchesPattern(s) ==
    /\ s # <<>>
    /\ s[1] \in Alphanumeric /\ Last(s) \in Alphanumeric
    /\ \A i \in DOMAIN s : s[i] \in Alphanumeric \cup Inner

\* What validate_name reports; it returns the normalised name if nothing.
name_error(s) ==
    LET name == normalise_name(s)
    IN  CASE Len(name) < MinLength -> "tooShort"
          [] Len(name) > MaxLength -> "tooLong"
          [] Len(name) \in MinLength .. MaxLength ->
                IF MatchesPattern(name) THEN "none" ELSE "badCharacters"

Accepted(s) == name_error(s) = "none"

\* Mutant: the key keeps the case.
MutLowered(s) == s

\* str.lower()
Lowered(s) == [i \in DOMAIN s |-> IF s[i] \in Upper THEN "a" ELSE s[i]]

name_key(s) == Lowered(normalise_name(s))
-----------------------------------------------------------------------------
(***************************************************************************)
(* The reference: what the words of a text are.                            *)
(***************************************************************************)
\* The place of the j-th character that is not white space.
Place(s, j) == CHOOSE i \in Ink(s) : Cardinality({k \in Ink(s) : k <= i}) = j

Letters(s) == [j \in 1 .. Cardinality(Ink(s)) |-> s[Place(s, j)]]

\* The j-th and the (j+1)-st character that is not white space are in
\* different words.
Gap(s, j) == Place(s, j + 1) # Place(s, j) + 1

SameWords(s, t) ==
    /\ Letters(s) = Letters(t)
    /\ \A j \in 1 .. Len(Letters(s)) - 1 : Gap(s, j) = Gap(t, j)

OneSpaceApart(s) ==
    /\ \A i \in DOMAIN s : s[i] \in White => s[i] = Space
    /\ \A i \in DOMAIN s : s[i] = Space => i \notin {1, Len(s)} /\ s[i + 1] # Space

\* White space decides about nothing: a text is accepted for the characters
\* and the total length of its words, one space apart, and that is the name.
NameIsCanonical ==
    LET letters == Letters(raw)
        gaps == Cardinality({j \in 1 .. Len(letters) - 1 : Gap(raw, j)})
    IN  /\ Accepted(raw) <=>
              /\ Len(letters) + gaps \in MinLength .. MaxLength
              /\ ToSet(letters) \subseteq Alphanumeric \cup Inner
              /\ letters[1] \in Alphanumeric /\ Last(letters) \in Alphanumeric
        /\ SameWords(normalise_name(raw), raw)
        /\ OneSpaceApart(normalise_name(raw))

\* The key is the words in lower case, one space apart: two names have the
\* same key exactly if they differ in case and white space only.  delete finds
\* from the stored name the key that create reserved.
KeyIsWordsInLowerCase ==
    /\ name_key(normalise_name(raw)) = name_key(raw)
    /\ SameWords(name_key(raw), [i \in DOMAIN raw |->
                                    IF raw[i] \in Upper THEN "a" ELSE raw[i]])
    /\ OneSpaceApart(name_key(raw))
=============================================================================
