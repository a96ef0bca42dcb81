--------------------------- MODULE MCManagerConfig ---------------------------
(* Configurations on a fixed and an ephemeral address, for TLC.             *)
EXTENDS ManagerConfig

CONSTANTS unset, fixed, ephemeral, h1, h2, c1, c2, renewed

TwoHandlers     == {h1, h2}
AllCertificates == {c1, c2, renewed}
Port0           == {ephemeral}

Plain(a) == [address |-> a, https |-> FALSE, pem |-> unset, certificate |-> unset,
             tls |-> unset, handler |-> unset]
Secure(a, c) == [Plain(a) EXCEPT !.https = TRUE, !.certificate = c]

PlainOnly       == {Plain(fixed), Plain(ephemeral)}
Secured         == {Secure(a, c) : a \in {fixed, ephemeral}, c \in {c1, c2}}
WithCertificate == PlainOnly \cup Secured \cup {[c EXCEPT !.handler = h1] : c \in Secured}
=============================================================================
