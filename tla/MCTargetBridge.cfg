SPECIFICATION FairBridgeSpec
CONSTANTS
    Publishers = {p1, p2}
    max_pending = 2
    Reconnects = {TRUE, FALSE}
    NoMessage = NoMessage
    MaxOffers = 3
CHECK_DEADLOCK FALSE
INVARIANTS
    PlacesAndOffersAddUp
PROPERTY
    DeliversAtMostOnceInOrder
    PlacesComeBack
