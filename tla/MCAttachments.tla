--------------------------- MODULE MCAttachments ---------------------------
(* Small instances of Attachments for TLC. *)
EXTENDS Attachments

CONSTANTS f1, f2, f3, f4, t1, t2, m1, m2, m3

\* Two contents go to disk and two to memory; each tier holds one of its two.
MCSize == [f \in Files |-> IF f = f3 THEN 1 ELSE IF f = f4 THEN 2 ELSE 3]
MCSubdir == [f \in Files |-> 0]
MCProtocol == [t \in Tenants |-> "cloud"]
MCLarge == [t \in Tenants |-> IF t = t1 THEN "rewrite" ELSE "reject"]
Att(kind, f, k) == [kind |-> kind, file |-> f, key |-> k]
Mail(x, y, z) == [m \in Msgs |-> IF m = m1 THEN x ELSE IF m = m2 THEN y ELSE z]

\* Two mails with the same file and one with another; two files in one mail; mounts of one name;
\* a digest that names another file.
MCMails ==
  {Mail(<<Att("absolute", f1, f1)>>, <<Att("url", f2, f2)>>, <<Att("absolute", f1, f1)>>),
   Mail(<<Att("absolute", f1, f1), Att("url", f2, NoKey)>>, <<>>, <<Att("absolute", f1, f1)>>),
   Mail(<<Att("mount", f3, NoKey)>>, <<Att("mount", f3, f3)>>, <<Att("mount", f4, f3)>>),
   Mail(<<Att("absolute", f1, f2)>>, <<Att("endpoint", f3, f3)>>, <<Att("base64", f2, f2)>>)}
MCPayloadTenant == [m \in Msgs |-> IF m = m1 THEN t1 ELSE IF m = m2 THEN t2 ELSE NoTenant]
=============================================================================
