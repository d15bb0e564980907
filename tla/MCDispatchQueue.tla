--------------------------- MODULE MCDispatchQueue ---------------------------
(***************************************************************************)
(* Small uses of the queues, among them the experiments of the app.         *)
(***************************************************************************)
EXTENDS DispatchQueue, TLC

MCQueues == {"q", "r"}
MCCalls  == {"a", "b", "c", "d", "e", "f", "g", "h", "i"}

\* A use from the calls it makes, c :> <<op, queue>> or c :> <<op, queue, target>>,
\* the calls of clients and blocks, and the queues that are concurrent.
MakeUse(calls, body, concurrent) ==
    [op    |-> [c \in Calls |-> IF c \in DOMAIN calls THEN calls[c][1] ELSE "none"],
     q     |-> [c \in Calls |-> IF c \in DOMAIN calls THEN calls[c][2] ELSE ROOT],
     to    |-> [c \in Calls |-> IF c \in DOMAIN calls /\ Len(calls[c]) = 3 THEN calls[c][3] ELSE ROOT],
     body  |-> [x \in Calls \cup Clients |-> IF x \in DOMAIN body THEN body[x] ELSE <<>>],
     width |-> [q \in Queues |-> IF q \in concurrent THEN 4 ELSE 1]]

\* A block, one its thread waits for, and a client that waits for a block of its own.
SerialUse ==
    MakeUse("a" :> <<"async", "q">> @@ "b" :> <<"sync", "q">> @@ "c" :> <<"sync", "q">>,
            "t1" :> <<"a", "b">> @@ "t2" :> <<"c">>, {})

\* Two clients that wait for their blocks, one of them twice.
SyncUse ==
    MakeUse("a" :> <<"sync", "q">> @@ "b" :> <<"sync", "q">> @@ "c" :> <<"sync", "q">>,
            "t1" :> <<"a">> @@ "t2" :> <<"b", "c">>, {})

\* Blocks of one client, around one that it waits for.
OrderUse ==
    MakeUse("a" :> <<"async", "q">> @@ "b" :> <<"sync", "q">> @@ "c" :> <<"async", "q">>,
            "t1" :> <<"a", "b", "c">>, {})

\* GCDViewController.test_barrier_async, with the barrier that is commented out there
\* (:41-46), one block before it, and the block that is waited for after it.
BarrierUse ==
    MakeUse("a" :> <<"async", "q">> @@ "b" :> <<"barrier_sync", "q">> @@ "c" :> <<"sync", "q">>,
            "t1" :> <<"a", "b", "c">>, {"q"})

\* A reader on either side of a writer; the last one lets go of the queue, whose
\* client may still have to wake it.
WriterUse ==
    MakeUse("a" :> <<"async", "q">> @@ "b" :> <<"barrier_async", "q">> @@ "c" :> <<"async", "q">>
            @@ "d" :> <<"release", "q">>,
            "t1" :> <<"a", "b", "c">> @@ "c" :> <<"d">>, {"q"})

\* The first of the two queues of OPTBatteryViewController.testSet_target_queue is
\* given its serial target; a block that runs there submits to the target itself.
TargetUse ==
    MakeUse("a" :> <<"set_target", "q", "r">> @@ "b" :> <<"async", "q">> @@ "c" :> <<"async", "r">>,
            "t1" :> <<"a", "b">> @@ "b" :> <<"c">>, {})

\* OPTBatteryViewController.testGCD_PrioryQueue, both suspends made first: low is q,
\* high is r, which ARC releases when the method returns.
PriorityUse ==
    MakeUse("a" :> <<"set_target", "q", "r">> @@ "b" :> <<"async", "q">>
            @@ "c" :> <<"suspend", "q">> @@ "d" :> <<"async", "r">> @@ "e" :> <<"resume", "q">>
            @@ "f" :> <<"suspend", "q">> @@ "g" :> <<"async", "r">> @@ "h" :> <<"resume", "q">>
            @@ "i" :> <<"release", "r">>,
            "t1" :> <<"c", "f", "a", "b", "d", "g", "i">> @@ "d" :> <<"e">> @@ "g" :> <<"h">>, {})

SafeUses == "sync" :> SyncUse @@ "order" :> OrderUse @@ "barrier" :> BarrierUse
            @@ "writer" :> WriterUse @@ "target" :> TargetUse @@ "priority" :> PriorityUse

\* The serial use alone.
Serial == "serial" :> SerialUse
=============================================================================
