---------------------------- MODULE MCNetifMdns -----------------------------
(* Two interfaces for TLC, in the conditions that loading tells apart: no  *)
(* address, only the unspecified one, repeated ones, more than fit, and    *)
(* the same addresses in another order.                                    *)
EXTENDS NetifMdns

CONSTANTS a, b, c

MCConditions ==
  [ operational : {TRUE}, addrs : { <<>>, <<Unspecified>>, <<a, Unspecified, a>>,
                                    <<b, a, a, c>>, <<a, b>> } ]
  \union [ operational : {FALSE}, addrs : { <<a>> } ]
=============================================================================
