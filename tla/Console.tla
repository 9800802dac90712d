------------------------------- MODULE Console -------------------------------
(***************************************************************************)
(* The console, src/src/stdio.c: printf under print_lock, scanf under      *)
(* read_lock, both only once mmu_enabled is set, and the code around them: *)
(* the heap prints with heap_lock held, the handler of IRQ 48 prints on    *)
(* top of the code it interrupted, and a panic (src/src/exceptions.c)      *)
(* prints on top of whatever failed and stops its core.                    *)
(*                                                                         *)
(* A format is a sequence of characters, reduced to those the scanners     *)
(* tell apart ("c" is any other one); an argument is printed as one "arg". *)
(* The digits of numbers are in Convert.                                   *)
(***************************************************************************)
EXTENDS Spinlock, Sequences, FiniteSets

CONSTANTS
  Thread,        \* thread code, one agent per core that runs it
  Boot,          \* the one of core 0
  Handler,       \* "irq" and "trap": handlers that run on top of thread code
  PrintFormats,  \* per agent, the formats it prints
  ScanFormats,   \* the formats threads read with
  Key,           \* characters that are typed, besides the newline
  LineMax,       \* bound: characters typed before a newline; gets has none
  EchoMax        \* bound: keys echoed while a printf is under way

ASSUME ConsoleAssumption ==
  /\ Agent = Thread \cup Handler /\ Boot \in Thread
  /\ Handler \subseteq {"irq", "trap"} /\ Thread \cap {"irq", "trap"} = {}
  /\ Lock = {"print", "read", "heap"}
  /\ LineMax \in Nat /\ EchoMax \in Nat
  /\ ScanFormats \subseteq Seq(STRING)
  /\ \A a \in Agent : PrintFormats[a] \subseteq Seq(STRING)

VARIABLES
  mmu_enabled,
  call,          \* per agent: the function it is in, the format and p
  over,          \* per handler, the thread it runs on top of, or Nobody
  said,          \* per handler: "nothing" yet, "something", or "all" (halted)
  uart,          \* while a printf is under way, what was put since it began,
                 \* by anybody: characters, and whether getchar echoed them
  typed          \* what was typed since the last newline

vars == <<word, at, mmu_enabled, call, over, said, uart, typed>>
------------------------------------------------------------------------------
NoCall == [fn |-> "none", fmt |-> <<>>, p |-> 1, locked |-> FALSE, buf |-> <<>>]
In(a, fn) == call[a].fn = fn
SetCall(a, c) == call' = [call EXCEPT ![a] = c]

\* Code goes on unless a handler runs on top of it.
Runs(a) ==
  /\ \A h \in Handler : over[h] # a
  /\ a \in Handler => over[a] # Nobody /\ said[a] # "all"
Free(a) == Runs(a) /\ In(a, "none") /\ ~Waits(a, "heap")

\* Inside printf or scanf, behind the lock if it took one.
Inside(a, fn, l) == In(a, fn) /\ (call[a].locked => Holds(a, l))
Body(a, fn, l) == Runs(a) /\ Inside(a, fn, l)

\* The format from p on; '\0' behind its end.
Char(a, k) ==
  LET i == call[a].p + k IN IF i <= Len(call[a].fmt) THEN call[a].fmt[i] ELSE "\\0"
Advance(a, n) == SetCall(a, [call[a] EXCEPT !.p = @ + n])

Init ==
  /\ SpinInit
  /\ mmu_enabled = FALSE
  /\ call = [a \in Agent |-> NoCall]
  /\ over = [h \in Handler |-> Nobody]
  /\ said = [h \in Handler |-> "nothing"]
  /\ uart = <<>> /\ typed = <<>>

\* main sets mmu_enabled; core 1, the heap and interrupts come afterwards.
EnableMmu ==
  /\ ~mmu_enabled
  /\ Free(Boot)
  /\ mmu_enabled' = TRUE
  /\ UNCHANGED <<word, at, call, over, said, uart, typed>>

Started(a) == mmu_enabled \/ a = Boot
------------------------------------------------------------------------------
MutEnter(a, fn, l, fmt) ==
  /\ Free(a) /\ Started(a)
  /\ SetCall(a, [fn |-> fn, fmt |-> fmt, p |-> 1, locked |-> FALSE, buf |-> <<>>])
  /\ UNCHANGED <<word, at, mmu_enabled, over, said, uart, typed>>

\* The start of printf and scanf: pthread_spin_lock once there can be others.
Enter(a, fn, l, fmt) ==
  /\ Free(a) /\ Started(a)
  /\ SetCall(a, [fn |-> fn, fmt |-> fmt, p |-> 1, locked |-> mmu_enabled, buf |-> <<>>])
  /\ IF mmu_enabled THEN pthread_spin_lock(a, l) ELSE UNCHANGED spinVars
  /\ UNCHANGED <<mmu_enabled, over, said, uart, typed>>

\* Their end.
Leave(a, l) ==
  /\ Char(a, 0) = "\\0"
  /\ SetCall(a, NoCall)
  /\ IF mmu_enabled THEN pthread_spin_unlock(a, l) ELSE UNCHANGED spinVars
  /\ said' = IF a \in Handler THEN [said EXCEPT ![a] = "something"] ELSE said
  /\ UNCHANGED <<mmu_enabled, over, typed>>

\* A step of pthread_spin_lock on a lock that agent a waits for.
TakeLock(a) ==
  /\ Runs(a)
  /\ \E l \in Lock : CompareExchange(a, l)
  /\ UNCHANGED <<mmu_enabled, call, over, said, uart, typed>>
Retry(a) ==
  /\ Runs(a)
  /\ \E l \in Lock : CompareFails(a, l) \/ SpinWait(a, l)
  /\ UNCHANGED <<mmu_enabled, call, over, said, uart, typed>>
Spinning(a) ==
  /\ Runs(a)
  /\ \E l \in Lock : at[a][l] = "wait" /\ word[l] = 1
  /\ UNCHANGED vars

printf(a) == \E fmt \in PrintFormats[a] : Enter(a, "printf", "print", fmt)

\* What putchar sends to the UART; it takes no lock.
Shown(c) == [echo |-> FALSE, c |-> c]
Echoed(c) == [echo |-> TRUE, c |-> c]
Echoes(s) == {i \in DOMAIN s : s[i].echo}
UnderWay == \E a \in Agent : In(a, "printf") /\ call[a].p > 1

\* putchar and the number printers, on behalf of printf.
Emit(c) == uart' = Append(uart, Shown(c))

MutPrintStep(a) ==
  /\ Body(a, "printf", "print")
  /\ Char(a, 0) # "\\0"
  /\ IF Char(a, 0) # "%" THEN Advance(a, 1) /\ Emit(Char(a, 0))
     ELSE IF Char(a, 1) = "l"
     THEN Advance(a, 3) /\ Emit("arg")
     ELSE Advance(a, 2) /\ IF Char(a, 1) \in {"d", "s", "x"} THEN Emit("arg") ELSE UNCHANGED uart
  /\ UNCHANGED <<word, at, mmu_enabled, over, said, typed>>

\* An iteration of the loop of printf.  After %l only four letters advance p;
\* after % without l an unknown letter is not consumed.  X is left out, being
\* treated as x.
PrintStep(a) ==
  /\ Body(a, "printf", "print")
  /\ Char(a, 0) # "\\0"
  /\ IF Char(a, 0) # "%" THEN Advance(a, 1) /\ Emit(Char(a, 0))
     ELSE IF Char(a, 1) = "l"
     THEN IF Char(a, 2) \in {"x", "d", "u"}
          THEN Advance(a, 3) /\ Emit("arg")
          ELSE Advance(a, 0) /\ UNCHANGED uart
     ELSE IF Char(a, 1) \in {"d", "s", "x"} THEN Advance(a, 2) /\ Emit("arg")
     ELSE Advance(a, 1) /\ UNCHANGED uart
  /\ UNCHANGED <<word, at, mmu_enabled, over, said, typed>>

MutPrintEnd(a) ==
  /\ Body(a, "printf", "print")
  /\ Char(a, 0) = "\\0"
  /\ SetCall(a, NoCall) /\ uart' = <<>>
  /\ UNCHANGED <<word, at, mmu_enabled, over, said, typed>>

PrintEnd(a) == Body(a, "printf", "print") /\ Leave(a, "print") /\ uart' = <<>>
------------------------------------------------------------------------------
\* Threads read when they hold no heap_lock.
scanf(a) ==
  /\ a \in Thread /\ at[a]["heap"] = "out"
  /\ \E fmt \in ScanFormats : Enter(a, "scanf", "read", fmt)

\* An iteration of the loop of scanf: only %d is known, any other % stays put.
ScanStep(a) ==
  /\ Body(a, "scanf", "read")
  /\ Char(a, 0) # "\\0"
  /\ IF Char(a, 0) # "%" THEN Advance(a, 1)
     ELSE IF Char(a, 1) = "d" THEN SetCall(a, [call[a] EXCEPT !.fn = "gets", !.buf = <<>>])
     ELSE Advance(a, 0)
  /\ UNCHANGED <<word, at, mmu_enabled, over, said, uart, typed>>

\* A character arrives in gets; the newline ("\r" counts as one) ends scand
\* and the conversion.  getchar echoes it, without print_lock, wherever a
\* printf of another core may be.  Keys are ASCII: putchar drops the others.
GetChar(a, c) ==
  /\ Body(a, "gets", "read")
  /\ IF c = "\n"
     THEN /\ SetCall(a, [call[a] EXCEPT !.fn = "scanf", !.p = @ + 2, !.buf = <<>>])
          /\ typed' = <<>>
     ELSE /\ Len(typed) < LineMax
          /\ SetCall(a, [call[a] EXCEPT !.buf = Append(@, c)])
          /\ typed' = Append(typed, c)
  /\ IF UnderWay
     THEN Cardinality(Echoes(uart)) < EchoMax /\ uart' = Append(uart, Echoed(c))
     ELSE UNCHANGED uart
  /\ UNCHANGED <<word, at, mmu_enabled, over, said>>

ScanEnd(a) == Body(a, "scanf", "read") /\ Leave(a, "read") /\ UNCHANGED uart
------------------------------------------------------------------------------
\* free and heap_debug print between these two, other calls of the heap do not.
HeapLock(a) ==
  /\ Free(a) /\ a \in Thread /\ mmu_enabled
  /\ pthread_spin_lock(a, "heap")
  /\ UNCHANGED <<mmu_enabled, call, over, said, uart, typed>>

HeapUnlock(a) ==
  /\ Free(a)
  /\ pthread_spin_unlock(a, "heap")
  /\ UNCHANGED <<mmu_enabled, call, over, said, uart, typed>>

\* An interrupt on core 0, or an exception in the code of any core, about
\* which the handler prints: it runs on top of thread t, wherever t is.
Interrupt(h, t) ==
  /\ mmu_enabled
  /\ over[h] = Nobody /\ \A g \in Handler : over[g] # t
  /\ h = "irq" => t = Boot
  /\ over' = [over EXCEPT ![h] = t]
  /\ UNCHANGED <<word, at, mmu_enabled, call, said, uart, typed>>

\* The end of el1_irq_handler.
IrqReturn(h) ==
  /\ h = "irq" /\ Free(h)
  /\ said[h] = "something"
  /\ over' = [over EXCEPT ![h] = Nobody]
  /\ said' = [said EXCEPT ![h] = "nothing"]
  /\ UNCHANGED <<word, at, mmu_enabled, call, uart, typed>>

\* The end of el1_sync_handler: while (1) wfe.
Halt(h) ==
  /\ h = "trap" /\ Free(h)
  /\ said[h] = "something"
  /\ said' = [said EXCEPT ![h] = "all"]
  /\ UNCHANGED <<word, at, mmu_enabled, call, over, uart, typed>>

\* What an agent in a call, or in a handler, does without waiting for anybody.
Proceed(a) ==
  \/ PrintStep(a) \/ PrintEnd(a) \/ ScanStep(a) \/ ScanEnd(a)
  \/ IrqReturn(a) \/ Halt(a)
  \/ a \in Handler /\ said[a] = "nothing" /\ printf(a)

Next ==
  \/ EnableMmu
  \/ \E a \in Agent : \/ TakeLock(a) \/ Retry(a) \/ Spinning(a)
                      \/ printf(a) \/ scanf(a) \/ Proceed(a)
                      \/ \E c \in Key \cup {"\n"} : GetChar(a, c)
                      \/ HeapLock(a) \/ HeapUnlock(a)
  \/ \E h \in Handler, t \in Thread : Interrupt(h, t)

Spec == Init /\ [][Next]_vars

\* Code that waits for nobody goes on, and a core on its own gets a free lock;
\* nothing is assumed of the typist or of who wins a contended lock.
FairSpec ==
  /\ Spec
  /\ \A a \in Agent : WF_vars(Proceed(a)) /\ WF_vars(Retry(a))
  /\ WF_vars(\E a \in Agent : TakeLock(a))

\* The most a spinlock could promise: nobody is passed over for ever.
StrongSpec == FairSpec /\ \A a \in Agent : SF_vars(TakeLock(a))
------------------------------------------------------------------------------
\* Types: p stays inside the format or on its terminator.
TypeOK ==
  /\ word \in [Lock -> {0, 1}]
  /\ at \in [Agent -> [Lock -> {"out", "cas", "wait", "in"}]]
  /\ mmu_enabled \in BOOLEAN
  /\ said \in [Handler -> {"nothing", "something", "all"}]
  /\ over \in [Handler -> Thread \cup {Nobody}]
  /\ \A a \in Agent : /\ call[a].fn \in {"none", "printf", "scanf", "gets"}
                      /\ call[a].p \in 1 .. Len(call[a].fmt) + 1
                      /\ call[a].buf \in Seq(Key)
  /\ typed \in Seq(Key) /\ Len(typed) <= LineMax

\* What the characters of fmt before position n put on the console: a
\* conversion one argument, a character outside conversions itself, and a %
\* that starts none nothing.
Conversion(fmt, i) ==
  fmt[i] = "%" =>
    \/ i < Len(fmt) /\ fmt[i + 1] \in {"d", "s", "x"}
    \/ i + 1 < Len(fmt) /\ fmt[i + 1] = "l" /\ fmt[i + 2] \in {"x", "d", "u"}
Span(fmt, i) == IF fmt[i] # "%" THEN 1 ELSE IF fmt[i + 1] = "l" THEN 3 ELSE 2
Consumed(fmt, i) ==
  \E j \in 1 .. i - 1 : fmt[j] = "%" /\ Conversion(fmt, j) /\ j + Span(fmt, j) > i
Put(fmt, i) == IF fmt[i] = "%" THEN "arg" ELSE fmt[i]
Puts(fmt, n) == {i \in 1 .. n - 1 : Conversion(fmt, i) /\ ~Consumed(fmt, i)}
Ranked(P, k) == {i \in P : Cardinality({j \in P : j <= i}) = k}
Rendered(fmt, n) ==
  LET P == Puts(fmt, n)
  IN  [k \in 1 .. Cardinality(P) |-> Put(fmt, CHOOSE i \in Ranked(P, k) : TRUE)]

\* What is on the console, without the echo of keys.
Unechoed(s) ==
  LET P == DOMAIN s \ Echoes(s)
  IN  [k \in 1 .. Cardinality(P) |-> s[CHOOSE i \in Ranked(P, k) : TRUE].c]

\* A printf's text appears in one piece but for echoed keys: what is on the
\* console since it began, these apart, is what its format says, although
\* other cores, the interrupt handler and panics print too, print_lock is not
\* used before mmu_enabled is set and getchar never uses it.
OutputWhole ==
  \A a \in Agent :
    Inside(a, "printf", "print") /\ call[a].p > 1 =>
      Unechoed(uart) = Rendered(call[a].fmt, call[a].p)

\* A typed line goes to one reader.
LineWhole == \A a \in Agent : In(a, "gets") => call[a].buf = typed

\* A format on which printf makes progress: %l is followed by x, d or u.
Good(fmt) ==
  \A i \in 1 .. Len(fmt) :
    fmt[i] = "%" /\ i < Len(fmt) /\ fmt[i + 1] = "l" => Conversion(fmt, i)

\* A handler on top of a waits for the lock that a holds.
SelfDeadlock(a) == \E h \in Handler : over[h] = a /\ Waits(h, "print")

\* print_lock is given back: by every printf whose format is good, unless an
\* interrupt or a panic on the same core wants to print meanwhile.
PrintLockReleased ==
  \A a \in Agent :
    Holds(a, "print") /\ Good(call[a].fmt) ~> ~Holds(a, "print") \/ SelfDeadlock(a)

\* An interrupt handler that prints gets through its printf.
HandlerPrints == \A h \in Handler : In(h, "printf") ~> ~In(h, "printf")
==============================================================================
