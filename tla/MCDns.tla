-------------------------------- MODULE MCDns --------------------------------
EXTENDS DnsSystem

MCNames == {"www.example.com", "test.foo.com", "foo.com", "x.test.foo.com"}
MCLabels == [n \in MCNames |-> CASE n = "foo.com" -> 2 [] n = "x.test.foo.com" -> 4 [] OTHER -> 3]

A(n, addr, ttl) == [name |-> n, type |-> "A", data |-> addr, ttl |-> ttl]
Cname(n, to, ttl) == [name |-> n, type |-> "CNAME", data |-> to, ttl |-> ttl]

\* The aliases of db.txt in the order of the file, with a record that expires
\* before a later one of its name, and backwards, which sends the scan back;
\* there an alias leads to the first entry.
Forward == <<Cname("test.foo.com", "foo.com", 2), Cname("foo.com", "x.test.foo.com", 2),
             A("x.test.foo.com", "a2", 1), A("x.test.foo.com", "a3", 2)>>
Backward == <<A("x.test.foo.com", "a3", 2), A("foo.com", "a1", 1),
              Cname("foo.com", "x.test.foo.com", 2), Cname("test.foo.com", "foo.com", 2)>>
MCDatabases == {Forward, Backward}

Request(n, t, qr, rd) ==
  [to |-> "server", from |-> "other", owner |-> "other", copy |-> FALSE, qr |-> qr, opcode |-> 0,
   questions |-> 1, rd |-> rd, name |-> n, type |-> t]
MCOtherRequests == {Request("foo.com", "A", TRUE, FALSE)}

Rec(n, t, data) == [name |-> n, type |-> t, data |-> data, ttl |-> 1, compressed |-> TRUE]
MCZone == [n \in MCNames |-> CASE n = "test.foo.com" -> Rec(n, "CNAME", "foo.com")
                             [] n = "foo.com" -> Rec(n, "A", "a1")
                             [] n = "www.example.com" -> Rec(n, "A", "a2")
                             [] OTHER -> None]
MCGlue == MCZone["www.example.com"]
MCTyped == {<<"test.foo.com", "test.foo.com">>, <<"foo.com", "FOO.COM.">>}
=============================================================================
