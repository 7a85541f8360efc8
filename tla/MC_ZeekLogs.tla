------------------------------ MODULE MC_ZeekLogs ------------------------------
\* Four families of inputs, each varying what the others keep fixed: the lines of
\* one conn.log, two rotated conn.logs, the kind of a connection, the other logs.
EXTENDS ZeekLogs, TLC

CONSTANTS a, b, u, v

MC_Pairs == {a, b}
MC_Uids == {u, v}

Tcp(p) == [pair |-> p, proto |-> "tcp"]
Plain == [valid |-> "yes", uid |-> NoUid, key |-> Tcp(a), state |-> "SF",
          replied |-> TRUE, missed |-> FALSE, says |-> "fine"]

L(kind) == [kind |-> kind, record |-> Plain]
J(record) == [kind |-> "json", record |-> record]
F(lines) == [lines |-> lines, readable |-> TRUE, cut |-> FALSE]

Only(conn) == [conn |-> conn, files |-> <<>>, capture_loss |-> <<>>, reporter |-> <<>>]
UpTo(S, n) == UNION {[1..m -> S] : m \in 0..n}

\* One file, any three lines; up to two of a few kinds before a fourth that is too many.
OneFile ==
    {Only(<<F(lines)>>) : lines \in UpTo({L(k) : k \in Kind}, 3)}
    \union {Only(<<F(<<L(k), L(m), J(Plain), J(Plain)>>)>>) :
              k \in {"json", "blank"}, m \in {"json", "text"}}
    \union {Only(<<[F(lines) EXCEPT !.cut = TRUE]>>) :
              lines \in UpTo({L("blank"), L("json"), L("text"), L("long")}, 2)}

\* Rotated files: a connection of each uid, the same uid under another key, one
\* without uid, one with missing bytes, an invalid one that carries a uid.
Connections ==
    {[Plain EXCEPT !.uid = u], [Plain EXCEPT !.uid = v, !.state = "S0"],
     [Plain EXCEPT !.uid = u, !.key = Tcp(b)], Plain,
     [Plain EXCEPT !.uid = v, !.missed = TRUE], [Plain EXCEPT !.uid = u, !.valid = "no"]}
Rows == <<L("fields"), L("row")>>
Rotated ==
    {Only(<<F(f), F(g)>>) : f, g \in UpTo({J(c) : c \in Connections}, 2)}
    \union {Only(<<f, g>>) :
              f, g \in {F(Rows), F(<<L("row")>>), F(<<L("directive"), L("row")>>),
                        F(<<J(Plain)>>), [F(Rows) EXCEPT !.readable = FALSE]}}
    \union {Only(<<F(<<J([Plain EXCEPT !.valid = "raises"])>>)>>), Only(<<>>)}

Kinds ==
    {Only(<<F(<<J([Plain EXCEPT !.key.proto = p, !.state = s, !.replied = r, !.missed = m])>>)>>) :
        p \in {"tcp", "udp", "icmp", "other"}, s \in {"SF", "S0", "REJ", "OTH", "SHR"},
        r \in BOOLEAN, m \in BOOLEAN}

\* Other logs: cut, unreadable, unrecognized, over the cap, over two files.
Say(s) == J([Plain EXCEPT !.says = s])
Logs ==
    {<<>>, <<F(<<Say("fine"), Say("bad")>>)>>, <<F(<<Say("none")>>)>>,
     <<F(<<Say("fine")>>), F(<<L("text"), Say("bad")>>)>>,
     <<F(<<L("json"), L("text"), L("json")>>), F(<<L("json")>>)>>,
     <<[F(<<Say("bad")>>) EXCEPT !.readable = FALSE], F(<<Say("fine")>>)>>,
     <<[F(<<Say("fine")>>) EXCEPT !.cut = TRUE]>>}
Others ==
    {[conn |-> <<F(<<J([Plain EXCEPT !.missed = m])>>)>>, files |-> f,
      capture_loss |-> c, reporter |-> r] : m \in BOOLEAN, f, c, r \in Logs}

MC_Inputs == OneFile \union Rotated \union Kinds \union Others
===============================================================================
