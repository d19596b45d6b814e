------------------------------ MODULE Terminal -------------------------------
(***************************************************************************)
(* Programs at the terminal: the keyboard and its line discipline, the     *)
(* console, and the descriptors through which processes reach them, as the *)
(* system calls of core/cpu/syscall.c put them together.  Each call and    *)
(* each interrupt is one step.  The kernel's messages go to the same       *)
(* console; of the one fork prints, the two numbers are kept.              *)
(***************************************************************************)
EXTENDS Tty, Fds, Lib

CONSTANTS Texts,      \* what programs write
          MaxCalls    \* bound on the calls other than read

ASSUME TerminalAssumption ==
    /\ MaxCalls \in Nat /\ Proc \subseteq U64
    /\ \A text \in Texts : text \in Seq({text[n] : n \in DOMAIN text})

VARIABLE calls        \* those so far

\* A pid in a message, as %u prints it.
Decimal == [p \in Proc |-> Format("u", 0, p)]

terminalVars == <<ttyVars, fdVars, calls>>

TerminalInit == TtyInit /\ FdsInit /\ calls = 0

Counted == calls < MaxCalls /\ calls' = calls + 1

Key(c) == KeyboardIrq(c) /\ UNCHANGED <<fdVars, calls>>

\* SYS_read; got is what it returns, and on another descriptor (EBADF) nothing
\* changes.
Read(p, fd, len) ==
    /\ \/ TypeOf(p, fd) # "in" /\ UNCHANGED ttyVars
       \/ TypeOf(p, fd) = "in" /\ SysRead(len)
    /\ UNCHANGED <<fdVars, calls>>

\* SYS_write.
Write(p, fd, text) ==
    /\ Counted
    /\ \/ TypeOf(p, fd) # "out" /\ UNCHANGED ttyVars
       \/ TypeOf(p, fd) = "out" /\ Output(text)
    /\ UNCHANGED fdVars

SysOpen(p, path) == Counted /\ Open(p, path) /\ UNCHANGED ttyVars

SysClose(p, fd) == Counted /\ Close(p, fd) /\ UNCHANGED ttyVars

SysFork(p, c) ==
    /\ Counted
    /\ Fork(p, c)
    /\ Output(Decimal[p] \o Decimal[c] \o <<"nl">>)

TerminalNext ==
    \/ \E c \in Char : Key(c)
    \/ \E p \in alive :
          \/ \E fd \in FdArg, len \in Lens : Read(p, fd, len)
          \/ \E fd \in FdArg, text \in Texts : Write(p, fd, text)
          \/ \E path \in Path : SysOpen(p, path)
          \/ \E fd \in FdArg : SysClose(p, fd)
          \/ \E c \in Proc : SysFork(p, c)

TerminalSpec == TerminalInit /\ [][TerminalNext]_terminalVars

-----------------------------------------------------------------------------
\* "console is rdwr" (syscall.c:84): what open returns can be written to.
ConsoleIsRdwr ==
    [][\A p \in alive :
          SysOpen(p, "console") /\ ret' >= 0 => (TypeOf(p, ret) = "out")']_terminalVars
==============================================================================
