\* Two entities in the domain whose import comes last.
CONSTANTS
  user = user
  cart = cart
  product = product
  shipment = shipment
  truck = truck
  shopDomain = shopDomain
  userDomain = userDomain
  yardDomain = yardDomain
  Entities = {user, shipment, truck}
  DomainOf <- Yards
  Given = {user}
  Layers <- TwoLayers
  Order <- YardsOrder
  Fits = 1
SPECIFICATION Spec
INVARIANT FinishedIsWired
