--------------------------- MODULE MCDeliveryJobs ----------------------------
(* Instances of DeliveryJobs for TLC: a mail that may come with three bodies *)
(* and a webhook delivery with two messages, which is replayed once.         *)
EXTENDS DeliveryJobs, TLC

CONSTANTS w1, w2, mail, hook, m1, m2, m3, h1, x, y

MCChannel  == mail :> "email" @@ hook :> "whatsapp"
MCContents == mail :> {m1, m2, m3} @@ hook :> {h1}
MCCarries  == h1 :> {x, y}
MCDefect   == m1 :> "none" @@ m2 :> "headers" @@ m3 :> "evidence" @@ h1 :> "none"
MCMaxAttempts == mail :> 1 @@ hook :> 2
MCLastGen     == mail :> 0 @@ hook :> 1
=============================================================================
