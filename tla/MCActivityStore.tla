--------------------------- MODULE MCActivityStore ---------------------------
(* Two batches over the same records: a record sent twice, one whose content *)
(* changed, one whose identifier another source uses, one without a host,    *)
(* one that cannot be read, and two written with an offset of their own: one *)
(* seems later, one earlier than it was.                                     *)
EXTENDS ActivityStore

X(id, kind, source, host, actor, object, time) ==
    [id |-> id, kind |-> kind, source |-> source, host |-> host, actor |-> actor,
     object |-> object, time |-> time, text |-> time, usable |-> TRUE]

exec    == X(1, "process_exec", "edr", "h1", "p1", "f1", 3)
connect == X(2, "network_connection", "ndr", "h1", "p1", "e1", 2)
logged  == [X(8, "file_event", "edr", "h1", "p1", "f2", 5) EXCEPT !.text = 3]
unit    == X(3, "systemd_event", "edr", "h1", "svc", "f1", 3)
child   == [X(4, "process_parent_relation", "edr", "h2", "p2", "p1", 4) EXCEPT !.text = 6]
asset   == X(5, "approved_endpoint", "cmdb", "h1", "none", "h1", 1)
edited  == [exec EXCEPT !.object = "f2"]
foreign == [unit EXCEPT !.source = "ndr", !.kind = "file_event", !.actor = "p1", !.time = 1]
hostless == X(6, "file_event", "edr", "", "p1", "f1", 3)
unread  == [X(7, "file_event", "edr", "h1", "p1", "f1", 3) EXCEPT !.usable = FALSE]

MCIngesters == {"demo", "import"}
MCBatch == [demo   |-> <<exec, child, unit, edited, hostless, asset>>,
            import |-> <<foreign, logged, connect, exec, unread>>]

At(t) == [time |-> t, text |-> t]
Q(mode, type, hosts, refs, window) ==
    [mode |-> mode, type |-> type, hosts |-> hosts, refs |-> refs,
     window |-> <<At(window[1]), At(window[2])>>]
MCReaders ==
    {Q("typed", "file", {}, {}, <<1, 4>>), Q("typed", "process", {"h1"}, {"p1"}, <<1, 4>>),
     [Q("typed", "process", {"h2"}, {}, <<1, 4>>) EXCEPT !.window[2].text = 6],
     Q("typed", "asset", {"h1"}, {}, <<1, 4>>),
     Q("typed", "network", {}, {}, <<0, 4>>),
     [Q("typed", "file", {"h1"}, {}, <<2, 4>>) EXCEPT !.window[1].text = 4],
     Q("timeline", "any", {"h1"}, {"p1", "h1", "f1"}, <<1, 4>>)}
MCScopeWindow == <<At(1), At(4)>>
=============================================================================
