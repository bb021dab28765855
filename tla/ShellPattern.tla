---------------------------- MODULE ShellPattern ----------------------------
(***************************************************************************)
(* Shell patterns (pkg/sh/pattern).  The code translates a pattern to a    *)
(* regular expression; here it is a sequence of elements, and what one     *)
(* matches is a set of lengths.  Character classes such as [:alpha:] and   *)
(* the operators of extended globs are left out.                           *)
(***************************************************************************)
EXTENDS Integers, Sequences, SequencesExt, FiniteSetsExt, TLC

\* The characters a range can be over, in the order of their codes.
Order == <<" ", "!", "#", "$", "%", "*", "+", ",", "-", ".", "/", "0", "1", "2", "3",
           "4", "5", "6", "7", "8", "9", ":", "=", "?", "@", "[", "bs", "]", "^",
           "a", "b", "c", "f", "i", "p", "q", "x", "y", "{", "}", "~">>
Code(l) == IF \E i \in DOMAIN Order : Order[i] = l
           THEN CHOOSE i \in DOMAIN Order : Order[i] = l ELSE 0

\* Letters that are no escape of a regular expression: one of them after a
\* backslash between brackets makes an expression that does not compile.
NoEscape == {"b", "c", "i", "q", "x", "y"}

Star(dot)       == [kind |-> "any", dot |-> dot]   \* dot: may begin with one
One             == [kind |-> "one"]
Literally(l)    == [kind |-> "lit", l |-> l]
OneOf(not, set) == [kind |-> "class", not |-> not, set |-> set]

Parsed(elems) == [err |-> "", elems |-> elems]
BadPattern    == [err |-> "syntax", elems |-> <<>>]
NoRegexp      == [err |-> "panic", elems |-> <<>>]

RECURSIVE Class(_, _, _), Elements(_, _, _)

\* The rest of a bracket expression: what it contains and what comes after.
Class(rest, set, first) ==
  LET ended(err) == [err |-> err, set |-> set, rest |-> <<>>]
      single(l, after) == Class(after, set \cup {l}, FALSE)
  IN IF rest = <<>> THEN ended("syntax")
     ELSE CASE rest[1] = "]" /\ ~first -> [err |-> "", set |-> set, rest |-> Tail(rest)]
            [] rest[1] = "bs" ->
                 IF Len(rest) = 1 THEN ended("syntax")
                 ELSE IF rest[2] \in NoEscape THEN ended("panic")
                 ELSE single(rest[2], SubSeq(rest, 3, Len(rest)))
            [] Len(rest) > 2 /\ rest[2] = "-" /\ rest[3] # "]" ->
                 IF Code(rest[1]) > Code(rest[3]) THEN ended("syntax")
                 ELSE Class(SubSeq(rest, 4, Len(rest)),
                            set \cup {l \in ToSet(Order) \cup {rest[1]} :
                                        Code(l) \in Code(rest[1])..Code(rest[3])}, FALSE)
            [] OTHER -> single(rest[1], Tail(rest))

\* Regexp.  In the names of files a wildcard that comes first matches no
\* leading dot, and two in a row are one.
Elements(pat, filenames, at) ==
  LET rest == SubSeq(pat, at, Len(pat))
      and(elem, n) == LET more == Elements(pat, filenames, at + n)
                      IN [more EXCEPT !.elems = <<elem>> \o @]
      not  == Len(rest) > 1 /\ rest[2] \in {"!", "^"}
      from == SubSeq(rest, IF not THEN 3 ELSE 2, Len(rest))
      class == Class(from, {}, TRUE)
  IN IF rest = <<>> THEN Parsed(<<>>)
     ELSE CASE rest[1] = "*" ->
                 and(Star(~filenames \/ at # 1),
                     IF filenames /\ Len(rest) > 1 /\ rest[2] = "*" THEN 2 ELSE 1)
            [] rest[1] = "?" -> and(One, 1)
            [] rest[1] = "bs" ->
                 IF Len(rest) = 1 THEN BadPattern ELSE and(Literally(rest[2]), 2)
            [] rest[1] = "[" ->
                 IF class.err = "syntax" THEN BadPattern
                 ELSE IF class.err = "panic" THEN NoRegexp
                 ELSE and(OneOf(not, class.set), Len(rest) - Len(class.rest))
            [] OTHER -> and(Literally(rest[1]), 1)

CompilePattern(pat, filenames) ==
  LET p == Elements(pat, filenames, 1) IN IF p.err = "" THEN p ELSE [p EXCEPT !.elems = <<>>]

Takes(elem, l) ==
  CASE elem.kind = "one" -> TRUE
    [] elem.kind = "lit" -> l = elem.l
    [] elem.kind = "class" -> (l \in elem.set) # elem.not

\* The lengths of the beginnings of s that the elements match.
PrefixLengths(elems, s) ==
  FoldLeft(LAMBDA ends, elem :
             IF elem.kind = "any"
             THEN UNION {IF elem.dot \/ e = Len(s) \/ s[e + 1] # "." THEN e..Len(s) ELSE {e}
                         : e \in ends}
             ELSE {e + 1 : e \in {e \in ends : e < Len(s) /\ Takes(elem, s[e + 1])}},
           {0}, elems)

Entire(elems, s) == Len(s) \in PrefixLengths(elems, s)

\* Whether a pattern that is no pattern matches nothing is up to the caller.
Matches(pat, s, filenames) ==
  LET p == CompilePattern(pat, filenames) IN p.err = "" /\ Entire(p.elems, s)

\* What a pattern takes off the end or the beginning of s.  The shortest
\* ending is looked for with ".*" before it, which stops at a newline.
RemovePattern(s, pat, fromEnd, shortest) ==
  LET p == CompilePattern(pat, FALSE)
      heads == PrefixLengths(p.elems, s)
      tails == {k \in 0..Len(s) : Entire(p.elems, SubSeq(s, k + 1, Len(s)))}
      onLine(i) == {k \in tails : k >= i /\ "nl" \notin ToSet(SubSeq(s, i + 1, k))}
      begins == {i \in 0..Len(s) : onLine(i) # {}}
  IN CASE p.err # "" -> s
       [] p.err = "" /\ fromEnd ->
            IF tails = {} THEN s
            ELSE SubSeq(s, 1, IF shortest THEN Max(onLine(Min(begins))) ELSE Min(tails))
       [] OTHER ->
            IF heads = {} THEN s
            ELSE SubSeq(s, (IF shortest THEN Min(heads) ELSE Max(heads)) + 1, Len(s))

\* An unescaped wildcard is in the string.
HasMeta(pat) ==
  \E i \in DOMAIN pat :
    /\ pat[i] \in {"*", "?", "["}
    /\ LET run == {k \in 0..(i - 1) : \A j \in (i - k)..(i - 1) : pat[j] = "bs"}
       IN Max(run) % 2 = 0

QuoteMeta(s) ==
  FlattenSeq([i \in DOMAIN s |->
    IF s[i] \in {"*", "?", "[", "bs"} THEN <<"bs", s[i]>> ELSE <<s[i]>>])
=============================================================================
