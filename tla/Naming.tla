------------------------------- MODULE Naming -------------------------------
(***************************************************************************)
(* internal/naming: the name a file is stored under, and what a stored     *)
(* name says about where it came from.  A name is a sequence of            *)
(* characters; a digit is the number it stands for, the separator, the     *)
(* minus sign and the rest are numbers above nine.                         *)
(***************************************************************************)
EXTENDS Integers, Sequences, SequencesExt

CONSTANTS
    Dialogs,     \* dialog ids, of either sign
    NameChars,   \* the characters of the names tried (a bound of the model)
    MaxName,     \* the longest of them (a bound of the model)
    MaxId        \* the largest id Atoi reads

ASSUME NamingAssumption ==
    Dialogs \subseteq Int /\ NameChars \subseteq Nat /\ MaxName \in Nat /\ MaxId \in Nat

Sep == 10
Minus == 11

\* strconv.Itoa of a natural number
Itoa(n) ==
    LET text[k \in 0 .. n] ==
          IF k < 10 THEN <<k>> ELSE Append(text[k \div 10], k % 10)
    IN  text[n]

\* strconv.FormatInt
Decimal(n) == IF n < 0 THEN <<Minus>> \o Itoa(-n) ELSE Itoa(n)

(* The one function that names a file.                                     *)
For(dialog, message, title) ==
    Decimal(dialog) \o <<Sep>> \o Decimal(message) \o <<Sep>> \o title

\* a regression: whatever Atoi reads is an id
IdTextAny(s) == s # <<>> /\ \A k \in DOMAIN s : s[k] \in 0 .. 9

\* what For would write for an id: no sign, no leading zero
IdText(s) == s # <<>> /\ s[1] # 0 /\ \A k \in DOMAIN s : s[k] \in 0 .. 9

\* strconv.Atoi of digits
Number(s) ==
    LET n[k \in 0 .. Len(s)] == IF k = 0 THEN 0 ELSE 10 * n[k - 1] + s[k]
    IN  n[Len(s)]

(* The message id a stored name carries, or none.                          *)
SplitStored(dialog, name) ==
    LET prefix == Decimal(dialog) \o <<Sep>>
        rest == SubSeq(name, Len(prefix) + 1, Len(name))
        seps == {k \in DOMAIN rest : rest[k] = Sep}
        id == SubSeq(rest, 1, (CHOOSE k \in seps : \A j \in seps : k <= j) - 1)
    IN  IF IsPrefix(prefix, name) /\ seps # {} /\ IdText(id) /\ Number(id) <= MaxId
          THEN {Number(id)}
          ELSE {}

Names == UNION {[1 .. n -> NameChars] : n \in 0 .. MaxName}

(* SplitStored against For: the messages a name may have been written for. *)
ReadBack ==
    \A dialog \in Dialogs, name \in Names :
        SplitStored(dialog, name) =
          {message \in 1 .. MaxId :
             LET head == For(dialog, message, <<>>) IN IsPrefix(head, name)}
=============================================================================
