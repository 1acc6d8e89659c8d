\* Three entities, two of them in one domain, whose import ruff has to wrap.
CONSTANTS
  user = user
  cart = cart
  product = product
  shipment = shipment
  truck = truck
  shopDomain = shopDomain
  userDomain = userDomain
  yardDomain = yardDomain
  Entities = {user, cart, product, truck}
  DomainOf <- Shops
  Given = {user}
  Layers <- TwoLayers
  Order <- ShopsOrder
  Fits = 1
SPECIFICATION Spec
INVARIANTS TypeOK FinishedIsWired MountedIsComplete SecondRunChangesNothing
