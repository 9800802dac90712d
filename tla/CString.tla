------------------------------- MODULE CString -------------------------------
(***************************************************************************)
(* The string library, src/src/string.c, on a memory m of Size bytes: a    *)
(* pointer is an index, a function that writes returns the new memory.     *)
(* Strings are what lies before the next 0.                                *)
(***************************************************************************)
EXTENDS Integers, Sequences, FiniteSets, SequencesExt

CONSTANTS Size, Byte, Chunk   \* Chunk: bytes of a vector register, 16
ASSUME CStringAssumption == Size \in Nat /\ Chunk \in Nat \ {0} /\ 0 \in Byte

Ptr == 0 .. Size - 1
None == -1                    \* NULL

\* The least k in lo .. hi with P(k), hi if there is none: the index loops.
First(lo, hi, P(_)) ==
  CHOOSE k \in lo .. hi : (k = hi \/ P(k)) /\ \A j \in lo .. k - 1 : ~P(j)

Loop(n, m, Body(_, _)) == FoldLeft(Body, m, [k \in 1 .. n |-> k - 1])
Fill(m, a, n, c) == [i \in DOMAIN m |-> IF i \in a .. a + n - 1 THEN c ELSE m[i]]
------------------------------------------------------------------------------
\* Byte by byte, upwards and downwards.
CopyUp(m, d, s, n) == Loop(n, m, LAMBDA x, k : [x EXCEPT ![d + k] = x[s + k]])
CopyDown(m, d, s, n) ==
  Loop(n, m, LAMBDA x, k : [x EXCEPT ![d + n - 1 - k] = x[s + n - 1 - k]])

\* A vector is loaded whole and then stored.
CopyChunk(m, d, s) ==
  [i \in DOMAIN m |-> IF i \in d .. d + Chunk - 1 THEN m[i - d + s] ELSE m[i]]

memcpy(m, d, s, n) ==
  LET done == Chunk * (n \div Chunk)
      m1 == Loop(n \div Chunk, m, LAMBDA x, k : CopyChunk(x, d + k * Chunk, s + k * Chunk))
  IN  CopyUp(m1, d + done, s + done, n - done)

MutMemmove(m, d, s, n) == CopyUp(m, d, s, n)

memmove(m, d, s, n) == IF d < s THEN CopyUp(m, d, s, n) ELSE CopyDown(m, d, s, n)

memset(m, s, c, n) ==
  LET done == Chunk * (n \div Chunk)
      m1 == Loop(n \div Chunk, m, LAMBDA x, k : Fill(x, s + k * Chunk, Chunk, c))
  IN  Fill(m1, s + done, n - done, c)

\* Copies up to and including the first c; where it stopped.
memccpy(m, d, s, c, n) ==
  LET k == First(0, n, LAMBDA i : m[s + i] = c)
  IN  IF k < n THEN [mem |-> CopyUp(m, d, s, k + 1), ret |-> d + k + 1]
      ELSE [mem |-> CopyUp(m, d, s, n), ret |-> None]

memchr(m, s, c, n) ==
  LET k == First(0, n, LAMBDA i : m[s + i] = c) IN IF k < n THEN s + k ELSE None

memcmp(m, a, b, n) ==
  LET k == First(0, n, LAMBDA i : m[a + i] # m[b + i])
  IN  IF k < n THEN m[a + k] - m[b + k] ELSE 0
------------------------------------------------------------------------------
strlen(m, s) == First(s, Size - 1, LAMBDA i : m[i] = 0) - s

\* The test is ret <= maxlen: one more than maxlen can come back.
strnlen(m, s, maxlen) == First(0, maxlen + 1, LAMBDA k : m[s + k] = 0)

\* strcpy and stpcpy.
strcpy(m, d, s) == CopyUp(m, d, s, strlen(m, s) + 1)
stpcpy(m, d, s) == [mem |-> strcpy(m, d, s), ret |-> d + strlen(m, s)]

\* Exactly n bytes, the string and then zeros.
strncpy(m, d, s, n) ==
  LET len == First(0, n, LAMBDA k : m[s + k] = 0)
  IN  Fill(CopyUp(m, d, s, len), d + len, n - len, 0)
stpncpy(m, d, s, n) == [mem |-> strncpy(m, d, s, n), ret |-> d + n]

strcat(m, d, s) == strcpy(m, d + strlen(m, d), s)

\* Copies at most n bytes.  If the 0 was among them another one follows it;
\* if n ran out first there is none.
strncat(m, d, s, n) ==
  LET end == d + strlen(m, d)
      len == strlen(m, s)
  IN  IF len < n THEN Fill(CopyUp(m, end, s, len + 1), end + len + 1, 1, 0)
      ELSE CopyUp(m, end, s, n)

\* n bounds an index that is tested after the byte is stored; a longer
\* destination loses its byte n.
strlcat(m, d, s, n) ==
  LET len == strlen(m, d)
      room == IF len <= n THEN n - len + 1 ELSE 1
      at_ == IF len <= n THEN d + len ELSE d + n
      all == strlen(m, s) + 1
  IN  CopyUp(m, at_, s, IF all < room THEN all ELSE room)

strchr(m, s, c) ==
  LET k == First(s, s + strlen(m, s), LAMBDA i : m[i] = c)
  IN  IF m[k] = c THEN k ELSE None

strrchr(m, s, c) ==
  LET end == s + strlen(m, s)
      k == First(0, end - s, LAMBDA i : m[end - i] = c)
  IN  IF m[end - k] = c THEN end - k ELSE None

strcspn(m, s, reject) ==
  First(s, s + strlen(m, s), LAMBDA i : m[i] # 0 /\ strchr(m, reject, m[i]) # None) - s

strcmp(m, a, b) ==
  LET k == First(0, strlen(m, a), LAMBDA i : m[a + i] # m[b + i]) IN m[a + k] - m[b + k]

strncmp(m, a, b, n) ==
  LET k == First(0, n, LAMBDA i : m[a + i] # m[b + i] \/ m[a + i] = 0)
  IN  IF k < n THEN m[a + k] - m[b + k] ELSE 0

MutStrtok(m, str, delim) ==
  LET end == str + strlen(m, str)
      start == First(str, end, LAMBDA k : strchr(m, delim, m[k]) = None)
      stop == First(start, end, LAMBDA k : strchr(m, delim, m[k]) # None)
  IN  IF start = end THEN [mem |-> m, ret |-> None, saveptr |-> str]
      ELSE [mem |-> [m EXCEPT ![stop] = 0], ret |-> start, saveptr |-> stop]

\* strtok_r: str is the text of the first call, *saveptr in later ones.  The
\* token is cut off in place; *saveptr is left alone when there is none.
strtok_r(m, str, delim) ==
  LET end == str + strlen(m, str)
      start == First(str, end, LAMBDA k : strchr(m, delim, m[k]) = None)
      stop == First(start, end, LAMBDA k : strchr(m, delim, m[k]) # None)
  IN  IF start = end THEN [mem |-> m, ret |-> None, saveptr |-> str]
      ELSE [mem |-> [m EXCEPT ![stop] = 0], ret |-> start,
            saveptr |-> IF stop = end THEN stop ELSE stop + 1]
------------------------------------------------------------------------------
IsString(m, a) == \E k \in a .. Size - 1 : m[k] = 0
Text(m, a) == SubSeq([k \in 1 .. Size |-> m[k - 1]], a + 1, a + strlen(m, a))
Fits(a, n) == a + n <= Size
Apart(a, n, b, k) == a + n <= b \/ b + k <= a

\* The memory with the n bytes from s on at d, all at once.
Moved(m, d, s, n) ==
  [i \in DOMAIN m |-> IF i \in d .. d + n - 1 THEN m[i - d + s] ELSE m[i]]

\* The copying functions move what they should and touch nothing else:
\* memmove also when the ranges overlap, memcpy for lengths that are not
\* multiples of a vector, strncpy and stpncpy with padding.
CopiesExact(m) ==
  \A d, s \in Ptr, n \in 0 .. Size :
    Fits(d, n) /\ Fits(s, n) =>
      /\ memmove(m, d, s, n) = Moved(m, d, s, n)
      /\ memset(m, d, m[s], n) = Fill(m, d, n, m[s])
      /\ Apart(d, n, s, n) =>
           LET len == First(0, n, LAMBDA k : m[s + k] = 0)
           IN  /\ memcpy(m, d, s, n) = Moved(m, d, s, n)
               /\ \A c \in Byte :
                    LET at == memchr(m, s, c, n)
                    IN  memccpy(m, d, s, c, n) =
                          IF at = None THEN [mem |-> Moved(m, d, s, n), ret |-> None]
                          ELSE [mem |-> Moved(m, d, s, at - s + 1), ret |-> d + at - s + 1]
               /\ strncpy(m, d, s, n)
                    = [i \in Ptr |-> IF i \in d .. d + n - 1 /\ i >= d + len THEN 0
                                     ELSE Moved(m, d, s, n)[i]]

\* Concatenation: what is read back is one text after the other.  strncat
\* writes a 0 behind its terminator and none at all when n runs out; strlcat
\* can write the byte behind a buffer of n bytes, never a later one.
JoinsExact(m) ==
  \A d, s \in Ptr, n \in 0 .. Size :
    LET room == strlen(m, d) + strlen(m, s) + 2
    IN  IsString(m, d) /\ IsString(m, s) /\ Fits(d, room) /\ Apart(d, room, s, strlen(m, s) + 1) =>
      LET both == Text(m, d) \o Text(m, s)
          behind == d + room - 1
          lcat == strlcat(m, d, s, n)
      IN  /\ Text(strcpy(m, d, s), d) = Text(m, s)
          /\ Text(strcat(m, d, s), d) = both
          /\ strlen(m, s) < n => /\ Text(strncat(m, d, s, n), d) = both
                                 /\ strncat(m, d, s, n)[behind] = 0
          /\ strlen(m, s) >= n /\ n > 0 =>
               strncat(m, d, s, n)[d + strlen(m, d) + n] = m[d + strlen(m, d) + n]
          /\ \A i \in Ptr : lcat[i] # m[i] => i \in d .. d + n
          /\ Len(both) <= n => Text(lcat, d) = both

\* Searches against the set of places where the byte is; the search functions
\* of strings also find the terminator.
SearchesExact(m) ==
  \A s \in Ptr, c \in Byte :
    IsString(m, s) =>
      LET hits == {i \in s .. s + strlen(m, s) : m[i] = c}
          low == IF hits = {} THEN None ELSE CHOOSE i \in hits : \A j \in hits : i <= j
          high == IF hits = {} THEN None ELSE CHOOSE i \in hits : \A j \in hits : i >= j
      IN  /\ strchr(m, s, c) = low
          /\ strrchr(m, s, c) = high
          /\ memchr(m, s, c, strlen(m, s) + 1) = low
          /\ \A r \in Ptr : IsString(m, r) =>
               LET rejected == Range(Text(m, r))
                   span == strcspn(m, s, r)
               IN  /\ Range(SubSeq(Text(m, s), 1, span)) \cap rejected = {}
                   /\ span < strlen(m, s) => m[s + span] \in rejected
          /\ \A k \in 0 .. Size - s - 2 :
               strnlen(m, s, k) = IF strlen(m, s) <= k THEN strlen(m, s) ELSE k + 1

\* Comparison is an order on texts: 0 exactly for equal ones, antisymmetric,
\* transitive; a prefix comes first; strncmp compares the first n characters,
\* memcmp n bytes.
OrderExact(m) ==
  LET S == {a \in Ptr : IsString(m, a)} IN
  \A a, b \in S :
    /\ strcmp(m, a, b) = 0 <=> Text(m, a) = Text(m, b)
    /\ strcmp(m, a, b) < 0 <=> strcmp(m, b, a) > 0
    /\ IsStrictPrefix(Text(m, a), Text(m, b)) => strcmp(m, a, b) < 0
    /\ \A c \in S : strcmp(m, a, b) <= 0 /\ strcmp(m, b, c) <= 0 => strcmp(m, a, c) <= 0
    /\ memcmp(m, a, b, strlen(m, a) + 1) = strcmp(m, a, b)
    /\ \A n \in 0 .. Size :
         strncmp(m, a, b, n) = 0 <=>
           SubSeq(Text(m, a), 1, IF n < strlen(m, a) THEN n ELSE strlen(m, a))
             = SubSeq(Text(m, b), 1, IF n < strlen(m, b) THEN n ELSE strlen(m, b))

\* Every call of strtok_r until NULL, with what each returned.
Tokens(m, str, delim) ==
  FoldLeft(LAMBDA t, k :
             LET call == strtok_r(t.mem, t.saveptr, delim)
             IN  IF t.over THEN t
                 ELSE [mem |-> call.mem, saveptr |-> call.saveptr, over |-> call.ret = None,
                       got |-> IF call.ret = None THEN t.got ELSE Append(t.got, call.ret)],
           [mem |-> m, saveptr |-> str, over |-> FALSE, got |-> <<>>], [k \in 1 .. Size |-> k])

\* The calls return, in order and once each, the longest stretches of the text
\* without a delimiter, also when delimiters come in rows, at the front or at
\* the end, and afterwards each is a string of its own.
TokensExact(m) ==
  \A s, r \in Ptr :
    /\ IsString(m, s) /\ IsString(m, r)
    /\ Apart(s, strlen(m, s) + 1, r, strlen(m, r) + 1)
    => LET delims == Range(Text(m, r))
           In(k) == k \in s .. s + strlen(m, s) - 1 /\ m[k] \notin delims
           starts == {k \in Ptr : In(k) /\ ~In(k - 1)}
           t == Tokens(m, s, r)
       IN  /\ t.over
           /\ t.got = SetToSortSeq(starts, <)
           /\ \A k \in starts : Text(t.mem, k) = SubSeq(Text(m, k), 1, strcspn(m, k, r))
==============================================================================
