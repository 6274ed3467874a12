------------------------------ MODULE Strings ------------------------------
(***************************************************************************)
(* src/Lib/String.h: characters behind a header that tells how many there  *)
(* are and how many there may be.  Strings share nothing, so the module    *)
(* has one of them.                                                        *)
(*                                                                         *)
(* bytes is the memory behind the header as far as it was allocated or     *)
(* written; str[i] is bytes[i + 1].  room is how much of it was allocated, *)
(* so bytes is longer than room once a call wrote past the end.  What lies *)
(* there is somebody else's, and a string that has run over by more than   *)
(* its terminator (Intact is FALSE) is followed no further.                *)
(*                                                                         *)
(* A realloc of a string in an arena does nothing: SAllocatorArena answers *)
(* with the old pointer.  Lengths are far below the range of a u32.        *)
(***************************************************************************)
EXTENDS Integers, Sequences

CONSTANTS
  Chars, Blank,       \* characters; Blank is in the cut set of StringTrim
  NUL, Junk,          \* the terminator, and what unwritten memory holds
  HeaderSize,         \* sizeof(string_header)
  CacheLine,          \* ArenaPush rounds sizes up to it
  MaxLength           \* bound: the longest string

\* What the constants are assumed to be.
StringConstants ==
  /\ Blank \in Chars /\ NUL \notin Chars /\ Junk \notin Chars
  /\ CacheLine \in Nat \ {0} /\ HeaderSize \in Nat /\ MaxLength \in Nat

VARIABLES
  memory,     \* "none", "arena" or "heap": where the string lives
  Length,
  Capacity,
  bytes,
  room,       \* how many bytes behind the header are allocated
  text,       \* history: what the calls made of it, or a Length without a text
  fault       \* history: what the string has met that the code gets wrong

vars == <<memory, Length, Capacity, bytes, room, text, fault>>

\* "full": StringAppendAllocator grew a string that was full.  "unbacked": a call
\* made the header promise more without memory for it.
Faults == {"none", "full", "unbacked"}

Texts == UNION {[1 .. n -> Chars] : n \in 0 .. MaxLength}
NoText == <<NUL>>

Nul(n) == [i \in 1 .. n |-> NUL]

\* The bytes after some are written from index at on, past the end as well.
Written(mem, at, some) ==
  [i \in 1 .. (IF Len(mem) < at + Len(some) THEN at + Len(some) ELSE Len(mem)) |->
     IF i - at \in DOMAIN some THEN some[i - at]
     ELSE IF i \in DOMAIN mem THEN mem[i] ELSE Junk]

\* SMemCopy and the terminator behind it.
Spelled(mem, at, some) == Written(mem, at, Append(some, NUL))

\* What is allocated behind the header when HeaderSize + n bytes are asked for.
Given(where, n) ==
  LET size == HeaderSize + n
  IN IF where = "arena" THEN ((size + CacheLine - 1) \div CacheLine) * CacheLine - HeaderSize
                        ELSE size - HeaderSize

Fresh(where, n) == [i \in 1 .. Given(where, n) |-> Junk]

\* A realloc on the heap keeps what was allocated before.
Resized(n) ==
  [i \in 1 .. n |-> IF i \in DOMAIN bytes /\ i <= room THEN bytes[i] ELSE Junk]

Init ==
  /\ memory = "none"
  /\ Length = 0 /\ Capacity = 0
  /\ bytes = <<>> /\ room = 0
  /\ text = <<>> /\ fault = "none"

\* There is a string, and it has not run over by more than its terminator.
Intact == memory # "none" /\ fault # "unbacked"

\* StringMake, StringClone and StringSprintfBuffer; StringMakeAllocator.
StringMake(where, some) ==
  /\ memory = "none"
  /\ memory' = where
  /\ Length' = Len(some) /\ Capacity' = Len(some)
  /\ bytes' = Spelled(Fresh(where, Len(some) + 1), 0, some)
  /\ room' = Given(where, Len(some) + 1)
  /\ text' = some
  /\ UNCHANGED fault

\* StringMakeLength without a text to copy, and StringMakeReserve.
StringMakeZero(length, capacity) ==
  /\ memory = "none"
  /\ memory' = "arena"
  /\ Length' = length /\ Capacity' = capacity
  /\ bytes' = Written(Fresh("arena", capacity + 1), 0, Nul(capacity + 1))
  /\ room' = Given("arena", capacity + 1)
  /\ text' = IF length = 0 THEN <<>> ELSE NoText
  /\ UNCHANGED fault

Released ==
  /\ memory' = "none"
  /\ Length' = 0 /\ Capacity' = 0
  /\ bytes' = <<>> /\ room' = 0
  /\ text' = <<>> /\ fault' = "none"

StringFreeAllocator == memory = "heap" /\ Released

\* The snapshot of the arena ends.
ForgetArena == memory = "arena" /\ Released

-----------------------------------------------------------------------------
(* Appending. *)

Now == [len |-> Length, bytes |-> bytes, text |-> text]

Extended(s, some) ==
  [len |-> s.len + Len(some), bytes |-> Spelled(s.bytes, s.len, some),
   text |-> IF s.text = NoText THEN NoText ELSE s.text \o some]

\* StringAppendLength: all of it or, if it does not fit, nothing.
Appended(s, some) ==
  IF Len(some) > 0 /\ s.len + Len(some) <= Capacity THEN Extended(s, some) ELSE s

Become(s) ==
  /\ Length' = s.len /\ bytes' = s.bytes /\ text' = s.text
  /\ UNCHANGED <<memory, Capacity, room, fault>>

\* StringAppend, StringAppendString, StringAppendRune and StringAppendFmt.
StringAppendLength(some) == Intact /\ Become(Appended(Now, some))

\* A part, or the glue, that does not fit is left out; later ones may fit.
StringJoin(part1, glue, part2) ==
  /\ Intact
  /\ Become(Appended(Appended(Appended(Now, part1), glue), part2))

\* StringAppendAllocator grows by what it appends.  The new size counts from
\* Capacity and leaves out the terminator, for which a string that was full
\* has no room afterwards.  In an arena nothing grows but Capacity.
StringAppendAllocator(some) ==
  /\ Intact
  /\ Len(some) > 0
  /\ Length + Len(some) <= MaxLength
  /\ LET over == Length + Len(some) > Capacity
         new_size == IF over /\ memory = "heap" THEN Capacity + Len(some) ELSE room
         grown == IF over /\ memory = "heap" THEN Resized(new_size) ELSE bytes
         s == Extended([Now EXCEPT !.bytes = grown], some)
     IN /\ Length' = s.len /\ bytes' = s.bytes /\ text' = s.text
        /\ Capacity' = IF over THEN s.len ELSE Capacity
        /\ room' = new_size
        /\ fault' = IF over /\ memory = "arena" THEN "unbacked"
                    ELSE IF over /\ Length = Capacity THEN "full" ELSE fault
  /\ UNCHANGED memory

-----------------------------------------------------------------------------

Available == IF Capacity > Length THEN Capacity - Length ELSE 0

\* Mutant: old_size, which the code computes and does not use.
OldSize(addLen) == Length + 1

\* new_size behind the header.
NewSize(addLen) == Length + addLen + 1

StringMakeSpaceFor(addLen) ==
  /\ Intact
  /\ Available < addLen
  /\ Length + addLen <= MaxLength
  /\ IF memory = "heap"
     THEN bytes' = Resized(NewSize(addLen)) /\ room' = NewSize(addLen) /\ UNCHANGED fault
     ELSE fault' = "unbacked" /\ UNCHANGED <<bytes, room>>
  /\ Capacity' = Length + addLen
  /\ UNCHANGED <<memory, Length, text>>

StringSet(some) ==
  /\ Intact
  /\ LET kept == SubSeq(some, 1, IF Capacity < Len(some) THEN Capacity ELSE Len(some))
     IN Become([len |-> Len(kept), bytes |-> Spelled(bytes, 0, kept), text |-> kept])

StringClear ==
  /\ Intact
  /\ Become([len |-> 0, bytes |-> Written(bytes, 0, Nul(1)), text |-> <<>>])

\* zpl_char_first_occurence finds the terminator of the cut set too.
Cut == {Blank, NUL}

StartPos ==
  CHOOSE i \in 0 .. Length :
    /\ \A j \in 0 .. i - 1 : bytes[j + 1] \in Cut
    /\ i = Length \/ bytes[i + 1] \notin Cut

\* Mutant: the second loop stops one character early.
EndPosEarly ==
  CHOOSE i \in -1 .. Length - 1 :
    /\ \A j \in i + 1 .. Length - 1 : j > StartPos + 1 /\ bytes[j + 1] \in Cut
    /\ i <= StartPos + 1 \/ bytes[i + 1] \notin Cut

\* The second loop does not go below start_pos; an empty string, or one with
\* nothing to keep, has its end before its start.
EndPos ==
  CHOOSE i \in -1 .. Length - 1 :
    /\ \A j \in i + 1 .. Length - 1 : j > StartPos /\ bytes[j + 1] \in Cut
    /\ i <= StartPos \/ bytes[i + 1] \notin Cut

\* The text without the characters that may go at either end.
Trimmed(some) ==
  CHOOSE mid \in {SubSeq(some, i, j) : i \in 1 .. Len(some) + 1, j \in 0 .. Len(some)} :
    /\ \E pre, post \in UNION {[1 .. n -> {Blank}] : n \in 0 .. Len(some)} :
         some = pre \o mid \o post
    /\ mid # <<>> => mid[1] # Blank /\ mid[Len(mid)] # Blank

StringTrim ==
  /\ Intact
  /\ LET len == IF StartPos > EndPos THEN 0 ELSE EndPos - StartPos + 1
     IN Become([len |-> len,
                bytes |-> Spelled(bytes, 0, SubSeq(bytes, StartPos + 1, StartPos + len)),
                text |-> IF text # NoText THEN Trimmed(text)
                         ELSE IF len = 0 THEN <<>> ELSE NoText])

\* The test is inverted: a string with room to spare has its first bytes zeroed
\* and keeps its Length; one that is just large enough or too small is written, cut
\* short by one, with the Length the caller gave.
StringSprintf(numBytes, some) ==
  /\ Intact
  /\ \/ /\ Capacity > numBytes
        /\ Become([Now EXCEPT !.bytes = Written(@, 0, Nul(numBytes)),
                              !.text = IF numBytes = 0 \/ Length = 0 THEN @ ELSE NoText])
     \/ /\ Capacity <= numBytes
        /\ LET kept == SubSeq(some, 1, IF Len(some) < numBytes THEN Len(some)
                                                               ELSE numBytes - 1)
               printed == IF numBytes = 0 THEN bytes ELSE Spelled(bytes, 0, kept)
           IN bytes' = Written(printed, numBytes, Nul(1))
        /\ Length' = numBytes
        /\ text' = IF numBytes = 0 THEN <<>> ELSE NoText
        /\ fault' = IF Capacity < numBytes THEN "unbacked" ELSE fault
        /\ UNCHANGED <<memory, Capacity, room>>

Next ==
  \/ \E some \in Texts :
       \/ \E where \in {"arena", "heap"} : StringMake(where, some)
       \/ StringAppendLength(some)
       \/ StringAppendAllocator(some)
       \/ StringSet(some)
  \/ \E n \in 0 .. MaxLength :
       \/ StringMakeZero(0, n) \/ StringMakeZero(n, n)
       \/ StringMakeSpaceFor(n)
       \/ \E some \in Texts : StringSprintf(n, some)
  \/ \E part1, glue, part2 \in Texts : StringJoin(part1, glue, part2)
  \/ StringFreeAllocator \/ ForgetArena
  \/ StringClear \/ StringTrim

Spec == Init /\ [][Next]_vars

-----------------------------------------------------------------------------
(* Properties. *)

TypeOK ==
  /\ memory \in {"none", "arena", "heap"}
  /\ Length \in 0 .. MaxLength /\ Capacity \in 0 .. MaxLength
  /\ bytes \in Seq(Chars \union {NUL, Junk})
  /\ room \in Nat
  /\ text \in Texts \union {NoText}
  /\ fault \in Faults

\* No call writes past the allocation, and the header never promises more characters,
\* with their terminator, than it holds, through any mixture of the two ways to grow.
\* Two faults are excepted.  A string that StringAppendAllocator grew when it was full
\* may have its terminator, and nothing else, one byte outside.  StringSprintf with
\* more bytes than Capacity, and growing in an arena, promise what nobody allocated.
TextInside ==
  /\ fault = "none" /\ memory # "none" => Capacity < room /\ Len(bytes) = room
  /\ fault # "unbacked" =>
       Length <= Capacity /\ Capacity <= room /\ Len(bytes) <= room + 1

\* The bytes spell what the calls so far describe, and a terminator follows, so that
\* C functions read what the header says; with the exceptions of TextInside.
Spells ==
  /\ fault # "unbacked" /\ text # NoText => SubSeq(bytes, 1, Length) = text
  /\ fault = "none" /\ memory # "none" => bytes[Length + 1] = NUL

=============================================================================
