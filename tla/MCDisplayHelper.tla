--------------------------- MODULE MCDisplayHelper ---------------------------
(* Small sets of requests for the runs of DisplayHelper.                    *)
EXTENDS HelperProperties

Plain == [virt |-> "none", hdr |-> FALSE, rod |-> TRUE]
Kept == [virt |-> "none", hdr |-> FALSE, rod |-> FALSE]
Virtual == [virt |-> "exclusive", hdr |-> FALSE, rod |-> TRUE]
VirtualHdr == [virt |-> "exclusive", hdr |-> TRUE, rod |-> TRUE]
Extended == [virt |-> "extended", hdr |-> FALSE, rod |-> TRUE]

OnlyPlain == {Plain}
OnlyVirtual == {Virtual}
OnlyExtended == {Extended}
KeptOrHdr == {Kept, VirtualHdr}
=============================================================================
