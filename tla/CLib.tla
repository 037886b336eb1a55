-------------------------------- MODULE CLib --------------------------------
(***************************************************************************)
(* The functions of common/ (string.c, stdlib.c, stdio.c) that the kernel  *)
(* and the programs share, and the kernel's command line (cmdline.c),      *)
(* which is parsed with them.  Memory is a function from addresses to      *)
(* bytes, a byte is a small number and zero ends a string.  A case is      *)
(* chosen in the initial state and its functions are evaluated on it.      *)
(***************************************************************************)
EXTENDS Integers, Sequences, FiniteSets, SequencesExt

CONSTANTS MemSize, WordSize,    \* of the memory that is copied in, of a word
          PointerRange,         \* how many addresses there are
          MaxItems,             \* bound: elements sorted, bytes of a string
          MaxBuffer             \* bound: size of a printf buffer

ASSUME CLibAssumption ==
    {MemSize, WordSize, PointerRange, MaxItems, MaxBuffer} \subseteq Nat

VARIABLES libCase
libVars == <<libCase>>

-----------------------------------------------------------------------------
(* Moving memory.  `rep movsl' and `rep movsb' go upwards unit by unit.    *)

Addr == 0 .. MemSize - 1

CopyUnit(m, d, s, k) ==
    [a \in DOMAIN m |-> IF a \in d .. d + k - 1 THEN m[s + (a - d)] ELSE m[a]]

CopyUp(m, d, s, k, count) ==
    LET f[i \in 0 .. count] ==
          IF i = 0 THEN m ELSE CopyUnit(f[i - 1], d + (i - 1) * k,
                                        s + (i - 1) * k, k)
    IN f[count]

Memcpy(m, d, s, n) ==
    LET words == IF d % WordSize = 0 /\ s % WordSize = 0 THEN n \div WordSize
                                                         ELSE 0
        done == words * WordSize
    IN CopyUp(CopyUp(m, d, s, WordSize, words), d + done, s + done, 1, n - done)

MemmoveUpwards(m, d, s, n) == Memcpy(m, d, s, n)              \* fault
Memmove(m, d, s, n) ==
    LET f[i \in 0 .. n] ==
          IF i = 0 THEN m ELSE CopyUnit(f[i - 1], d + n - i, s + n - i, 1)
    IN IF (d - s) % PointerRange >= n THEN Memcpy(m, d, s, n) ELSE f[n]

-----------------------------------------------------------------------------
(* Strings, as the bytes from an address up to the first zero.             *)

StrLen(m, p) == CHOOSE k \in 0 .. Len(m) :
                  m[p + k] = 0 /\ \A j \in 0 .. k - 1 : m[p + j] # 0
CString(m, p) == SubSeq(m, p, p + StrLen(m, p) - 1)

(* strchr(): the address of the byte, or 0.                                *)
StrChr(m, p, ch) ==
    LET at == {k \in 0 .. StrLen(m, p) - 1 : m[p + k] = ch}
    IN IF at = {} THEN 0 ELSE p + Min(at)

(* strlcpy(): a copy that fits, terminated.                                *)
StrLcpy(m, p, size) ==
    LET n == IF StrLen(m, p) < size THEN StrLen(m, p) ELSE size - 1
    IN SubSeq(m, p, p + n - 1) \o <<0>>

(* strtok_r(): t = [m, token, last]; address 0 is NULL.                    *)
StrTokStart(m, p, sep) ==
    CHOOSE a \in p .. Len(m) : /\ m[a] = 0 \/ m[a] # sep
                               /\ \A b \in p .. a - 1 : m[b] = sep
StrTokEnd(m, a, sep) ==
    CHOOSE e \in a .. Len(m) : /\ m[e] \in {0, sep}
                               /\ \A b \in a .. e - 1 : m[b] \notin {0, sep}
StrTokKeepsSeparator(m, p, sep) ==                            \* fault
    LET a == StrTokStart(m, p, sep)
        e == StrTokEnd(m, a, sep)
    IN IF p = 0 THEN [m |-> m, token |-> 0, last |-> 0]
       ELSE IF m[a] = 0 THEN [m |-> m, token |-> 0, last |-> 0]
       ELSE [m |-> m, token |-> a, last |-> IF m[e] = 0 THEN 0 ELSE e + 1]
StrTok(m, p, sep) ==
    LET a == StrTokStart(m, p, sep)
        e == StrTokEnd(m, a, sep)
    IN IF p = 0 THEN [m |-> m, token |-> 0, last |-> 0]
       ELSE IF m[a] = 0 THEN [m |-> m, token |-> 0, last |-> 0]
       ELSE [m |-> [m EXCEPT ![e] = 0], token |-> a,
             last |-> IF m[e] = 0 THEN 0 ELSE e + 1]

(* cmdline_init(): the tokens are keys; the part behind an equals sign is  *)
(* the value (0: none).  The equals signs are overwritten at the end.      *)
Space == 1
Equal == 2
RECURSIVE CmdlineTokens(_, _, _)
CmdlineTokens(m, p, keys) ==
    LET t == StrTok(m, p, Space)
    IN IF t.token = 0 THEN [m |-> t.m, keys |-> keys]
       ELSE CmdlineTokens(t.m, t.last, Append(keys, t.token))

CmdlineInit(line) ==
    LET t == CmdlineTokens(StrLcpy(line, 1, MaxItems + 1), 1, << >>)
        equals == {StrChr(t.m, t.keys[i], Equal) : i \in DOMAIN t.keys} \ {0}
    IN [keys |-> t.keys,
        values |-> [i \in DOMAIN t.keys |->
                      IF StrChr(t.m, t.keys[i], Equal) = 0 THEN 0
                      ELSE StrChr(t.m, t.keys[i], Equal) + 1],
        m |-> [a \in DOMAIN t.m |-> IF a \in equals THEN 0 ELSE t.m[a]]]

(* cmdline_lookup(): the value of the first key that is equal, or NULL.    *)
CmdlineLookup(c, key) ==
    LET found == {i \in DOMAIN c.keys : CString(c.m, c.keys[i]) = key}
    IN IF found = {} \/ c.values[Min(found)] = 0 THEN <<"null">>
       ELSE <<"value", CString(c.m, c.values[Min(found)])>>

-----------------------------------------------------------------------------
(* qsort() of the nmemb elements of s from `start' on.                     *)

Memswap(s, i, j) == [s EXCEPT ![i] = s[j], ![j] = s[i]]

(* The middle element is made the pivot, and the smaller ones are moved to *)
(* the places after it; returns where the others begin.                    *)
Partition(s, start, nmemb) ==
    LET first == Memswap(s, start + nmemb \div 2, start)
        f[j \in 0 .. nmemb - 1] ==
          IF j = 0 THEN [s |-> first, i |-> 1]
          ELSE LET g == f[j - 1]
               IN IF g.s[start + j] < g.s[start]
                  THEN [s |-> Memswap(g.s, start + j, start + g.i),
                        i |-> g.i + 1]
                  ELSE g
        g == f[nmemb - 1]
    IN [s |-> Memswap(g.s, start, start + g.i - 1), i |-> g.i]

RECURSIVE QsortSkipsPivotLeft(_, _, _)
QsortSkipsPivotLeft(s, start, nmemb) ==                       \* fault
    LET p == Partition(s, start, nmemb)
    IN IF nmemb <= 1 THEN s
       ELSE QsortSkipsPivotLeft(QsortSkipsPivotLeft(p.s, start, p.i - 2),
                                start + p.i, nmemb - p.i)
RECURSIVE Qsort(_, _, _)
Qsort(s, start, nmemb) ==
    LET p == Partition(s, start, nmemb)
    IN IF nmemb <= 1 THEN s
       ELSE IF p.i > nmemb \div 2
       THEN Qsort(Qsort(p.s, start + p.i, nmemb - p.i), start, p.i - 1)
       ELSE Qsort(Qsort(p.s, start, p.i - 1), start + p.i, nmemb - p.i)

-----------------------------------------------------------------------------
(* vsnprintf().  A format is a sequence of ordinary bytes and of           *)
(* conversions; each is the sequence of the bytes it stores, with whether  *)
(* the length is compared with the buffer's size behind each.  A number    *)
(* (%d, %i, %u, %x and %#) that is followed by an x is printed in radix 16 *)
(* with "0x" in front, takes the x for its own, and has no comparison      *)
(* between the two bytes of "0x".                                          *)

RECURSIVE Digits(_, _)
Digits(u, radix) == IF u < radix THEN <<u>>
                    ELSE Append(Digits(u \div radix, radix), u % radix)

(* itoa(), for ints of eight bits: only radix ten has a sign.              *)
Itoa(v, radix) == IF radix = 10 /\ v < 0 THEN <<"-">> \o Digits(-v, 10)
                  ELSE Digits(v % 2^8, radix)

Checked(xs) == [i \in DOMAIN xs |-> TRUE]
IsNumber(c) == c \in {"%#", "%x", "%3d"}
NumberPrinted(c) == IF c = "%3d" THEN -7 ELSE 10
PadLen(c) == IF c = "%3d" THEN 3 ELSE 0
TakesX(format, i) == IsNumber(format[i]) /\ i < Len(format) /\ format[i + 1] = "x"

StoresNumber(c, hex) ==
    LET num == Itoa(NumberPrinted(c), IF hex \/ c = "%x" THEN 16 ELSE 10)
        pad == IF PadLen(c) > Len(num) THEN PadLen(c) - Len(num) ELSE 0
    IN (IF hex THEN <<FALSE, TRUE>> ELSE << >>)
         \o [k \in 1 .. pad |-> TRUE] \o Checked(num)

Stores(format, i) ==
    CASE IsNumber(format[i]) -> StoresNumber(format[i], TakesX(format, i))
      [] format[i] = "%s" -> Checked(<<"a", "b">>)
      [] i > 1 /\ TakesX(format, i - 1) -> << >>
      [] OTHER -> <<TRUE>>
AllStores(format) == FlattenSeq([i \in DOMAIN format |-> Stores(format, i)])

(* idx at the label too_long, and one more than the last place stored to.  *)
VsnprintfStopsLate(format, size) ==                           \* fault
    LET all == AllStores(format)
        stops == {i \in DOMAIN all : all[i] /\ i > size}
    IN IF stops = {} THEN Len(all) ELSE Min(stops)
Vsnprintf(format, size) ==
    LET all == AllStores(format)
        stops == {i \in DOMAIN all : all[i] /\ i >= size}
    IN IF stops = {} THEN Len(all) ELSE Min(stops)

Terminator(idx, size) == IF idx < size THEN idx ELSE size - 1

-----------------------------------------------------------------------------
Formats == BoundedSeq({"c", "x", "%#", "%x", "%3d", "%s"}, 3)

CLibInit == libCase = [kind |-> "start"]

CallMemmove ==
    /\ libCase.kind = "start"
    /\ \E d, s \in Addr, n \in 0 .. MemSize :
         /\ d + n <= MemSize /\ s + n <= MemSize
         /\ libCase' = [kind |-> "move", d |-> d, s |-> s, n |-> n]

CallQsort ==
    /\ libCase.kind = "start"
    /\ \E k \in 0 .. MaxItems : \E xs \in [1 .. k -> 1 .. 3] :
         libCase' = [kind |-> "sort", xs |-> xs]

CallCmdlineInit ==
    /\ libCase.kind = "start"
    /\ \E k \in 0 .. MaxItems : \E xs \in [1 .. k -> 1 .. 3] :
         libCase' = [kind |-> "line", xs |-> xs]

CallVsnprintf ==
    /\ libCase.kind = "start"
    /\ \E f \in Formats, size \in 1 .. MaxBuffer :
         libCase' = [kind |-> "print", f |-> f, size |-> size]

CLibNext == CallMemmove \/ CallQsort \/ CallCmdlineInit \/ CallVsnprintf

-----------------------------------------------------------------------------
(* memmove() has the effect of one simultaneous copy, whatever the overlap *)
(* and the alignment (string.c:51).                                        *)
MemmoveIsSimultaneous ==
    libCase.kind = "move" =>
      LET m == [a \in Addr |-> a]
      IN Memmove(m, libCase.d, libCase.s, libCase.n)
           = CopyUnit(m, libCase.d, libCase.s, libCase.n)

(* qsort() returns the same elements in order, and never touches an        *)
(* element outside those it was given (stdlib.c:30).                       *)
QsortSorts ==
    libCase.kind = "sort" =>
      LET xs == libCase.xs
          framed == <<3>> \o xs \o <<1>>
          ys == Qsort(framed, 2, Len(xs))
      IN /\ ys[1] = 3 /\ ys[Len(ys)] = 1
         /\ \A i \in 2 .. Len(xs) : ys[i] <= ys[i + 1]
         /\ \A x \in 1 .. 3 : Cardinality({i \in DOMAIN ys : ys[i] = x})
                              = Cardinality({i \in DOMAIN framed : framed[i] = x})

(* The keys of the command line are its words, in order, up to an equals   *)
(* sign, and the first of the words that begin with a key and an equals    *)
(* sign, or consist of the key, decides its value (cmdline.c:57, 93).      *)
CmdlineIsItsWords ==
    libCase.kind = "line" =>
      LET xs == libCase.xs
          c == CmdlineInit(xs \o <<0>>)
          starts == {i \in DOMAIN xs : /\ xs[i] # Space
                                       /\ i > 1 => xs[i - 1] = Space}
          End(i) == Min({j \in i .. Len(xs) + 1 :
                           j > Len(xs) \/ xs[j] = Space})
          KeyEnd(i) == Min({j \in i .. End(i) : j = End(i) \/ xs[j] = Equal})
          KeyAt(i) == SubSeq(xs, i, KeyEnd(i) - 1)
      IN /\ c.keys = SetToSortSeq(starts, <)
         /\ \A i \in starts :
              LET f == Min({j \in starts : KeyAt(j) = KeyAt(i)})
              IN CmdlineLookup(c, KeyAt(i))
                   = IF KeyEnd(f) = End(f) THEN <<"null">>
                     ELSE <<"value", SubSeq(xs, KeyEnd(f) + 1, End(f) - 1)>>

(* vsnprintf() never stores behind the buffer, and a string that fits is   *)
(* stored whole.  The exception is a number with an x behind it, as in     *)
(* "%#x", which stores two bytes before it compares and may store one byte *)
(* behind the end (stdio.c:101).                                           *)
PrintfStaysInside ==
    libCase.kind = "print" =>
      LET f == libCase.f
          idx == Vsnprintf(f, libCase.size)
          whole == Len(AllStores(f))
      IN /\ Terminator(idx, libCase.size) \in 0 .. libCase.size - 1
         /\ idx <= libCase.size + (IF \E i \in DOMAIN f : TakesX(f, i) THEN 1 ELSE 0)
         /\ whole < libCase.size => idx = whole
=============================================================================
