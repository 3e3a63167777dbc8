---- MODULE MCCrashReport ----
(* Reports for CrashReport: one ordinary device, and for each thing a      *)
(* report depends on the devices that differ in it.                        *)
EXTENDS CrashReport

MCChar == STRING \X Int

Readable(text) == [ok |-> TRUE, text |-> text]
Frame(m, e, f, s) == [map |-> m, elf |-> e, func |-> f, step |-> s]
Call == Frame("lib", TRUE, "fun", TRUE)
Calls(n, last) == [i \in 1..(n + 1) |-> IF i <= n THEN Call ELSE last]
Lasts == {Frame("null", FALSE, "null", FALSE), Frame("", FALSE, "null", FALSE),
          Frame("lib", TRUE, "null", FALSE), Frame("lib", TRUE, "fun", FALSE)}
AnyLast == Frame("lib", TRUE, "fun", FALSE)

MCThread(t, s, c, ctx) ==
    [tid |-> t, comm |-> Readable(<<T("n"), NL>>), signo |-> s, code |-> c,
     context |-> ctx, siginfo |-> TRUE, regs |-> TRUE, stack |-> Calls(1, AnyLast)]

Chunk(text, mine) == [text |-> text, mine |-> mine]
Log(lines) == [ok |-> TRUE, lines |-> lines]
Fd(name) == [name |-> name, link |-> "link"]
Dots == <<Fd(<<".">>), Fd(<<".", ".">>)>>
Names == <<Fd(<<"0">>), Fd(<<"1">>), Fd(<<"9">>), Fd(<<"1", "0">>)>>
NoNet == [i \in 1..7 |-> [ok |-> FALSE, lines |-> <<>>]]

Base ==
    [abi |-> "arm64", api |-> 29, uname |-> TRUE, abilist |-> <<T("abi")>>,
     abi32 |-> <<T("abi")>>, abi64 |-> <<>>, cmdline |-> Readable(<<T("p")>>),
     crashed |-> MCThread(7, SIGSEGV, 1, TRUE),
     others |-> <<MCThread(8, SIGSTOP, 0, FALSE)>>,
     log |-> [i \in 1..3 |-> Log(<<>>)],
     fds |-> [ok |-> TRUE, entries |-> Dots], net |-> NoNet]

Abi == {"arm", "arm64", "x86", "x86_64"}
Unread == [ok |-> FALSE, text |-> <<T("junk")>>]
Others ==
    {<<>>} \cup
    {<<MCThread(8, SIGSTOP, 0, FALSE),
       [MCThread(9, SIGSTOP, 0, FALSE) EXCEPT !.siginfo = s, !.regs = r, !.comm = c]>> :
        s \in BOOLEAN, r \in BOOLEAN, c \in {Readable(<<NL>>), Unread}}
Stacks == {Calls(n, l) : n \in 0..(MaxFrames + 1), l \in Lasts}
Cuts == {<<T("l"), NL>>, <<T("l"), T("l"), T("l")>>, <<T("l")>>}
Logs == {<<Log(<<Chunk(x, TRUE)>>), Log(<<Chunk(y, FALSE)>>), z>> :
           x \in Cuts, y \in Cuts,
           z \in {Log(<<>>), [ok |-> FALSE, lines |-> <<>>]}}
Lines == {<<>>, <<SP, NL>>, <<SP, T("s"), SP, T("s"), NL>>, <<T("s")>>}
OneNet == {[NoNet EXCEPT ![i] = Log([j \in 1..n |-> x])] :
             i \in {3, 4, 7}, n \in 0..(TcpLimit + 1), x \in Lines}
Mixed(n) == {Log(l) : l \in [1..n -> {<<SP, NL>>, <<SP, T("s"), NL>>}]}
TwoNets == {[NoNet EXCEPT ![1] = x, ![5] = y] :
              x \in UNION {Mixed(n) : n \in {0, TcpLimit, TcpLimit + 1}},
              y \in UNION {Mixed(n) : n \in {0, IcmpLimit, IcmpLimit + 1}}}
Nets == OneNet \cup TwoNets

MCDevice ==
    {[Base EXCEPT !.abi = a, !.others = o] : a \in Abi, o \in Others}
    \cup {[Base EXCEPT !.crashed.stack = s] : s \in Stacks}
    \cup {[Base EXCEPT !.crashed.signo = s, !.crashed.code = c] :
            s \in SIGNALS_TO_CATCH, c \in {-6, 0, 1, 2, 3}}
    \cup {[Base EXCEPT !.api = a, !.log = l] : a \in {23, 24}, l \in Logs}
    \cup {[Base EXCEPT !.fds.entries = Dots \o SubSeq(Names, 1, n), !.fds.ok = o] :
            n \in 0..4, o \in BOOLEAN}
    \cup {[Base EXCEPT !.api = 28, !.others = <<>>, !.net = n] : n \in Nets}
    \cup {[Base EXCEPT !.api = 20, !.abi64 = a, !.uname = u] :
            a \in {<<>>, <<T("abi64")>>}, u \in BOOLEAN}
    \cup {[Base EXCEPT !.cmdline = c] :
            c \in {Unread, Readable([i \in 1..(NameSize + 2) |-> T("p")])}}
    \cup {[Base EXCEPT !.log[1] = Log([j \in 1..n |-> Chunk(<<T("l"), NL>>, TRUE)])] :
            n \in {8, 9, 30}}

====
