------------------------------ MODULE MCScaffold ------------------------------
(* Instances of Scaffold for TLC. *)
EXTENDS Scaffold, TLC

CONSTANTS user, cart, product, shipment, truck, shopDomain, userDomain, yardDomain

\* Two entities before the domain the project comes with, one after it.
Shops == (user :> userDomain) @@ (cart :> shopDomain) @@ (product :> shopDomain)
         @@ (truck :> yardDomain)
ShopsOrder == <<shopDomain, userDomain, yardDomain>>

\* Two entities after it.
Yards == (user :> userDomain) @@ (shipment :> yardDomain) @@ (truck :> yardDomain)
YardsOrder == <<userDomain, yardDomain>>

\* The first and the last layer.
TwoLayers == <<"models", "routes">>
=============================================================================
