--------------------------- MODULE MCBlockQueue ---------------------------
(* Instances of BlockQueue for TLC.                                        *)
EXTENDS BlockQueue, TLC

Req(c, n, a) == [cmd |-> c, bcount |-> n, aligned |-> a]

\* Both directions through a bounce buffer, one straight to the device, the
\* request without a buffer, the unsupported one and the empty one.
SomeRequests == {Req("READ", 2, FALSE), Req("WRITE", 1, FALSE),
                 Req("WRITE", 1, TRUE), Req("DELETE", 1, TRUE),
                 Req("OTHER", 1, TRUE), Req("READ", 0, TRUE)}

\* Enough to tell a bounced READ from a bounced WRITE.
FewRequests == {Req("READ", 1, FALSE), Req("WRITE", 1, FALSE)}

EFBIG == 27
AnyMapErrors == {-ENOMEM, -EFBIG}
AnyDeviceErrors == {-EIO, EIO}
OneDeviceError == {-EIO}

Symmetric == Permutations(Bios) \cup Permutations(Fbios)
=============================================================================
