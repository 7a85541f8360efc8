----------------------------- MODULE MC_Ingestion -----------------------------
\* All EVE files of up to four lines and PCAPNG files of up to five blocks,
\* PCAP files of up to five packets of three flows, which overflow the flow
\* table of two, and a budget of two records.
EXTENDS Ingestion

CONSTANTS f1, f2, f3

Item(kind) == [kind |-> kind, flow |-> NoFlow]
File(format, header, items) == [format |-> format, header |-> header, items |-> items]
OfKinds(kinds, lengths) == UNION {[1..n -> {Item(kind) : kind \in kinds}] : n \in lengths}

\* Only the last line may lack its newline, only the last packet be cut.
LastOnly(kind, items) == \A i \in 1..(Len(items) - 1) : items[i].kind # kind

EveItems == {items \in OfKinds({"event", "malformed", "torn", "long", "exact"}, 0..4) : LastOnly("torn", items)}

\* Three flows and a frame that is no IP; f1 comes first.
Packets == {[kind |-> "packet", flow |-> flow] : flow \in {f1, f2, f3, NoFlow}}
PcapItems == {items \in UNION {[1..n -> Packets] : n \in {2, 5}} : items[1].flow = f1}
             \union {<<>>}
             \union {items \in OfKinds({"packet", "oversized", "cut"}, 1..3) : LastOnly("cut", items)}

\* The adapter is chosen by a section header at the start.
PcapngItems == {<<Item("section")>> \o items :
                  items \in {i \in OfKinds({"packet", "interface", "section", "unknown", "silent", "bad", "cut"}, 0..4) :
                               /\ LastOnly("cut", i)
                               /\ Cardinality({n \in DOMAIN i : i[n].kind \in {"unknown", "silent"}}) <= 1}}

MC_Files == {File("eve", TRUE, items) : items \in EveItems}
            \union {File("pcap", TRUE, items) : items \in PcapItems}
            \union {File("pcap", FALSE, <<>>)}
            \union {File("pcapng", TRUE, items) : items \in PcapngItems}
MC_Rewritten == {File("eve", TRUE, <<Item("malformed"), Item("event"), Item("event")>>)}
===============================================================================
