------------------------------ MODULE StringUtil ------------------------------
(***************************************************************************)
(* The string functions of string_util.c, each against a definition of     *)
(* what it is for.  A string is the sequence of its characters.  tokenizer *)
(* copies the words into an array of fixed length and width that the next  *)
(* call finds as this one has left it; the others work on their arguments. *)
(* Blank separates words, NL lines; Tab is white space, but separates      *)
(* nothing.                                                                *)
(***************************************************************************)
EXTENDS Naturals, SequencesExt, Selection

CONSTANTS Char,
          Blank, Tab, NL,
          Digit,                    \* characters that are digits
          LineText, Subject, Page, Report,  \* what the functions are called with
          Sub, New, Pattern,
          MAX_CMD_TREE_DEPTH,       \* the words the array holds
          LEAF_VALUE_HOLDER_SIZE,   \* the characters of one, with the terminator
          MaxCalls                  \* bound on the calls of tokenizer

VARIABLES tokens,     \* the array: index -> characters up to the terminator
          call,       \* the last call and its arguments
          result,     \* what it returned, as a sequence
          broken,     \* whether it has written outside of the array or of a word
          calls

vars == <<tokens, call, result, broken, calls>>

Space == {Blank, Tab, NL}
Call(fn, string, a, n) == [fn |-> fn, string |-> string, a |-> a, n |-> n]

Init == /\ tokens = [i \in 1..MAX_CMD_TREE_DEPTH |-> <<>>]
        /\ call = Call("none", <<>>, <<>>, <<>>)
        /\ result = <<>> /\ broken = FALSE /\ calls = 0

-----------------------------------------------------------------------------
\* string_space_trim: first from the right, but for the first character, then from
\* the left.
string_space_trim(s) ==
  LET end == Max({i \in DOMAIN s : i = 1 \/ s[i] \notin Space})
      start == Min({i \in 1 .. end + 1 : i > end \/ s[i] \notin Space})
  IN IF s = <<>> THEN s ELSE SubSeq(s, start, end)

\* What lies from place i to place j, unless there is nothing.
Token(s, i, j) == IF i > j THEN <<>> ELSE <<SubSeq(s, i, j)>>

\* strtok: the tokens that end before place n, and where the next one can begin.
Scan(s, delim) ==
  LET upto[n \in 0..Len(s)] ==
        IF n = 0 THEN [found |-> <<>>, from |-> 1]
        ELSE IF s[n] # delim THEN upto[n - 1]
        ELSE [found |-> upto[n - 1].found \o Token(s, upto[n - 1].from, n - 1),
              from |-> n + 1]
  IN upto

\* strtok, called until it returns no more.
strtok(s, delim) ==
  LET end == Scan(s, delim)[Len(s)] IN end.found \o Token(s, end.from, Len(s))

\* Mutant of Untokenized: the entry is not cleared before it is written.
UntokenizedNot(old, word) == word \o SubSeq(old, Len(word) + 1, Len(old))

\* untokenize and strncpy without the terminator: the entry as it is then read.
Untokenized(old, word) == word

TooWide(word) == Len(word) >= LEAF_VALUE_HOLDER_SIZE

\* The words go into the array until one more than it holds has been written.
tokenizer(s) ==
  LET words == strtok(string_space_trim(s), Blank)
      kept == Min({Len(words), MAX_CMD_TREE_DEPTH})
  IN /\ broken' = (Len(words) > MAX_CMD_TREE_DEPTH \/ \E i \in 1..kept : TooWide(words[i]))
     /\ tokens' = [i \in DOMAIN tokens |->
                     IF Len(words) > MAX_CMD_TREE_DEPTH THEN <<>>
                     ELSE IF i <= kept THEN Untokenized(tokens[i], words[i]) ELSE tokens[i]]
     /\ result' = IF Len(words) > MAX_CMD_TREE_DEPTH THEN <<>> ELSE SubSeq(tokens', 1, kept)

-----------------------------------------------------------------------------
\* strstr.
Occurs(s, p, i) == i + Len(p) - 1 <= Len(s) /\ SubSeq(s, i, i + Len(p) - 1) = p
strstr(s, p) == \E i \in 1 .. Len(s) + 1 : Occurs(s, p, i)

pattern_match(s, p) == s # <<>> /\ strstr(s, p)

\* Mutant of replaceSubstring: stops behind the first occurrence.
ReplaceFirst(s, sub, new) ==
  LET at == {i \in DOMAIN s : Occurs(s, sub, i)}
  IN IF at = {} THEN s
     ELSE SubSeq(s, 1, Min(at) - 1) \o new \o SubSeq(s, Min(at) + Len(sub), Len(s))

\* What is put for the character at place i, and behind it.
Put(s, sub, new, i) ==
  IF Occurs(s, sub, i) THEN new \o SubSeq(s, i + Len(sub), Min({i + Len(sub), Len(s)}))
  ELSE <<s[i]>>

\* The text made of the first n characters, and the place to go on at.  The loop looks
\* on one place behind what it has put in.
Replacing(s, sub, new) ==
  LET upto[n \in 0..Len(s)] ==
        IF n = 0 THEN [text |-> <<>>, from |-> 1]
        ELSE IF n < upto[n - 1].from THEN upto[n - 1]
        ELSE [text |-> upto[n - 1].text \o Put(s, sub, new, n),
              from |-> IF Occurs(s, sub, n) THEN n + Len(sub) + 1 ELSE n + 1]
  IN upto

\* The occurrence at the end takes the terminator with it; what is put in there is
\* terminated by the bytes deleted, which are zero, as long as it is not longer than
\* they are.
replaceSubstring(s, sub, new) == Replacing(s, sub, new)[Len(s)].text

\* The lines with the pattern, each with its end; string_size is 0 for no text at all.
grep(s, p) ==
  LET lines == strtok(s, NL)
      kept == Selected(lines, {l \in Range(lines) : pattern_match(l, p)})
  IN FlattenSeq([i \in DOMAIN kept |-> Append(kept[i], NL)])

is_number(w) == \A i \in DOMAIN w : w[i] \in Digit

\* The index-th word that is a number, as text, or nothing, which is read as 0.
string_fetch_integer(s, index) ==
  LET words == strtok(s, Blank)
      numbers == Selected(words, {w \in Range(words) : is_number(w)})
  IN IF index <= Len(numbers) THEN <<numbers[index]>> ELSE <<>>

-----------------------------------------------------------------------------
Tokenize == /\ ~broken /\ calls < MaxCalls /\ calls' = calls + 1
            /\ \E s \in LineText : /\ call' = Call("tokenizer", s, <<>>, <<>>)
                                   /\ tokenizer(s)

Once(c, r) == /\ calls = 0 /\ calls' = MaxCalls
              /\ call' = c /\ result' = r
              /\ UNCHANGED <<tokens, broken>>

Replace == \E s \in Subject, sub \in Sub, new \in New :
             Once(Call("replace", s, sub, new), replaceSubstring(s, sub, new))

Grep == \E s \in Page, p \in Pattern : Once(Call("grep", s, p, <<>>), grep(s, p))

Fetch == \E s \in Report, index \in 1..3 :
           Once(Call("fetch", s, <<>>, [i \in 1..index |-> Blank]), string_fetch_integer(s, index))

Next == Tokenize \/ Replace \/ Grep \/ Fetch

Spec == Init /\ [][Next]_vars

-----------------------------------------------------------------------------
\* The first and the last place of each longest piece of s without a character of delims.
Inside(s, delims) ==
  {r \in (DOMAIN s) \X (DOMAIN s) :
     /\ r[1] <= r[2]
     /\ \A i \in r[1]..r[2] : s[i] \notin delims
     /\ r[1] = 1 \/ s[r[1] - 1] \in delims
     /\ r[2] = Len(s) \/ s[r[2] + 1] \in delims}

\* Those pieces: the k-th has k - 1 to the left of it.
Pieces(s, delims) ==
  LET inside == Inside(s, delims)
      nth(k) == CHOOSE r \in inside : Cardinality({q \in inside : q[1] < r[1]}) = k - 1
  IN [k \in 1..Cardinality(inside) |-> SubSeq(s, nth(k)[1], nth(k)[2])]

\* s without the white space at its two ends.
Trimmed(s) == LET black == {i \in DOMAIN s : s[i] \notin Space}
              IN IF black = {} THEN <<>> ELSE SubSeq(s, Min(black), Max(black))

\* The tokens of a line are its words, whatever the lines before it have left in the
\* array, unless there are more of them than it has entries (string_util.c:109 tests
\* after writing one too many) or one is as wide as an entry.
TokensAreWords ==
  call.fn = "tokenizer" =>
    LET words == Pieces(Trimmed(call.string), {Blank}) IN
    /\ broken = (\/ Len(words) > MAX_CMD_TREE_DEPTH
                 \/ \E i \in DOMAIN words : TooWide(words[i]))
    /\ ~broken => result = words

\* No occurrence of sub in s begins where another one ends, or overlaps with one.
Apart(s, sub) ==
  \A i \in DOMAIN s : Occurs(s, sub, i)
     => \A j \in i + 1 .. i + Len(sub) : ~Occurs(s, sub, j)

\* What stands in the place of a character of s when all occurrences of sub are new.
Instead(s, sub, new, i) ==
  IF Occurs(s, sub, i) THEN new
  ELSE IF \E j \in DOMAIN s : Occurs(s, sub, j) /\ j < i /\ i < j + Len(sub) THEN <<>>
  ELSE <<s[i]>>

IsReplaced(s, sub, new, r) == r = FlattenSeq([i \in DOMAIN s |-> Instead(s, sub, new, i)])

\* replaceSubstring replaces every occurrence that does not follow another one
\* directly (string_util.c:172 steps over a character).
ReplaceAgrees ==
  call.fn = "replace" /\ Apart(call.string, call.a)
    => IsReplaced(call.string, call.a, call.n, result)

\* grep keeps the lines with the pattern and nothing else.
GrepAgrees ==
  call.fn = "grep" =>
    LET lines == Pieces(call.string, {NL})
    IN Pieces(result, {NL}) = Selected(lines, {l \in Range(lines) : strstr(l, call.a)})

\* string_fetch_integer finds the numbers in their order.
FetchAgrees ==
  call.fn = "fetch" =>
    LET words == Pieces(call.string, {Blank})
        numbers == Selected(words, {w \in Range(words) : is_number(w)})
    IN result = IF Len(call.n) > Len(numbers) THEN <<>> ELSE <<numbers[Len(call.n)]>>

\* What the functions that keep nothing return is what they are for.
TextAgrees == ReplaceAgrees /\ GrepAgrees /\ FetchAgrees
=============================================================================
