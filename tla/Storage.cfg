\* A console with a game card slot, a memory card, an internal medium and USB.
CONSTANTS
    Consoles = {{"gcd", "xmc", "usb"}, {"xmc", "int", "usb"}}
    Exclusives = {TRUE, FALSE}
SPECIFICATION Spec
CONSTRAINT OneTrouble
ACTION_CONSTRAINT MediaAtRest
INVARIANT
    TypeOK
    Ux0HasMedium
    NoticeIsTrue
    FreshAfterSharing
    SharingIsWhole
