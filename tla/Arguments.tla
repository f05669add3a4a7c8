------------------------------ MODULE Arguments -----------------------------
(***************************************************************************)
(* What tgexport reads off its command line: the -m size (parseSize) and   *)
(* the -c chat (NormalizeChat), as pure functions with the meaning each of *)
(* them must have.                                                         *)
(*                                                                         *)
(* A size is the digits it is written with and the letter after them.  A   *)
(* chat is the path of a link, split at its slashes, or a bare word; words *)
(* are told apart by what the code asks of them.                           *)
(***************************************************************************)
EXTENDS Integers, Sequences

CONSTANTS
    Word,        \* math.MaxInt64
    Kilo,        \* the factor from one unit to the next, 2^10
    MaxDigits    \* the longest size tried (a bound of the model)

ASSUME ArgumentsAssumption ==
    Word \in Nat \ {0} /\ Kilo \in Nat \ {0} /\ MaxDigits \in Nat

(***************************************************************************)
(* Sizes                                                                   *)
(***************************************************************************)
\* what a character that is not a digit reads as
Other == 10

Units == {"none", "K", "M", "G", "T", "unknown"}

\* the value of an int64 expression
Wrap(n) == ((n + Word + 1) % (2 * (Word + 1))) - (Word + 1)

Accepted(n) == [ok |-> TRUE, size |-> n]
Refused == [ok |-> FALSE, size |-> 0]

Multiplier(unit) ==
    CASE unit = "K" -> Kilo
      [] unit = "M" -> Kilo * Kilo
      [] unit = "G" -> Kilo * Kilo * Kilo
      [] unit = "T" -> Kilo * Kilo * Kilo * Kilo
      [] OTHER -> 1

\* a regression: the product alone is looked at
FitsWrapped(n, d) == Wrap(10 * n + d) >= 0

\* checked before it is computed
Fits(n, d) == n <= (Word - d) \div 10

Digits(digits) ==
    LET read[k \in 0 .. Len(digits)] ==
          IF k = 0 THEN Accepted(0)
          ELSE LET r == read[k - 1] d == digits[k] IN
               IF r.ok /\ d # Other /\ Fits(r.size, d)
                 THEN Accepted(Wrap(10 * r.size + d))
                 ELSE Refused
    IN  read[Len(digits)]

(* No text is no cap.  A size is positive, and the product with its unit   *)
(* fits.                                                                   *)
ParseSize(digits, unit) ==
    LET n == Digits(digits) IN
    IF digits = <<>> /\ unit = "none" THEN Accepted(0)
    ELSE IF \/ unit = "unknown" \/ digits = <<>> \/ ~n.ok
            \/ n.size <= 0 \/ n.size > Word \div Multiplier(unit)
      THEN Refused
      ELSE Accepted(Wrap(n.size * Multiplier(unit)))

-----------------------------------------------------------------------------
(***************************************************************************)
(* Chats                                                                   *)
(***************************************************************************)
(* A link is its path; "id" and "message" are words of digits.             *)
Numbers == {"id", "message"}
Markers == {"c", "s"}

Part(path, k) == IF k <= Len(path) THEN path[k] ELSE "nothing"

\* where a message's number stands depends on the leading marker
IsMessageLink(path) ==
    IF Part(path, 1) \in Markers THEN Part(path, 3) \in Numbers
    ELSE Part(path, 1) # "joinchat" /\ Part(path, 2) \in Numbers

\* a regression: a chat is always the first part of the path
LinkChatFirst(path) == "none"

LinkChat(path) ==
    IF \/ Part(path, 1) = "c" /\ Part(path, 2) \in Numbers
       \/ Part(path, 1) = "s" /\ Part(path, 2) # "nothing"
      THEN Part(path, 2)
      ELSE "none"

(* What gotd's resolver takes a link it is handed to mean: the invitation, *)
(* or the first part and nothing after it.                                 *)
Resolved(path) ==
    IF Part(path, 1) = "joinchat" THEN Part(path, 2) ELSE Part(path, 1)

(* NormalizeChat, and what becomes of its answer.                          *)
NormalizeLink(path) ==
    IF IsMessageLink(path) THEN "refused"
    ELSE IF LinkChat(path) # "none" THEN LinkChat(path)
    ELSE Resolved(path)

\* a tg: link names the message in its query, not in a path
NormalizeDeepLink(keys, chat) ==
    IF keys \cap {"post", "message_id"} # {} THEN "refused" ELSE chat

NormalizeWord(word) ==
    CASE word = "-100id" -> "id"
      [] word = "@name" -> "name"
      [] OTHER -> word

-----------------------------------------------------------------------------
(***************************************************************************)
(* What they must mean                                                     *)
(***************************************************************************)
Numerals == UNION {[1 .. n -> 0 .. Other] : n \in 0 .. MaxDigits}

Value(digits) ==
    LET value[k \in 0 .. Len(digits)] ==
          IF k = 0 THEN 0 ELSE 10 * value[k - 1] + digits[k]
    IN  value[Len(digits)]

(* parseSize against the arithmetic of the naturals.                       *)
ExactSizes ==
    \A digits \in Numerals, unit \in Units :
        LET size == Value(digits) * Multiplier(unit)
            wellFormed == /\ digits # <<>> /\ unit # "unknown"
                          /\ \A k \in DOMAIN digits : digits[k] # Other
        IN  ParseSize(digits, unit) =
              IF digits = <<>> /\ unit = "none" THEN Accepted(0)
              ELSE IF wellFormed /\ 0 < size /\ size <= Word THEN Accepted(size)
              ELSE Refused

(* The links Telegram makes, with the chat each is a link to.              *)
ChatLinks == {[path |-> <<"c", "id">>, chat |-> "id"],
              [path |-> <<"s", "name">>, chat |-> "name"],
              [path |-> <<"joinchat", "hash">>, chat |-> "hash"],
              [path |-> <<"name">>, chat |-> "name"]}

(* NormalizeChat against what each link is a link to.                      *)
MeantChats ==
    /\ \A link \in ChatLinks :
         /\ NormalizeLink(link.path) = link.chat
         /\ link.chat # "hash" =>
              \A topic \in {<<>>, <<"id">>} :
                NormalizeLink(link.path \o topic \o <<"message">>) = "refused"
    /\ NormalizeDeepLink({"domain"}, "name") = "name"
    /\ \A key \in {"post", "message_id"} :
         NormalizeDeepLink({"domain", key}, "name") = "refused"
    /\ NormalizeWord("-100id") = NormalizeLink(<<"c", "id">>)
    /\ NormalizeWord("@name") = NormalizeLink(<<"s", "name">>)
=============================================================================
