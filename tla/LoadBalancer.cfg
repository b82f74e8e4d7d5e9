CONSTANTS
    site = site
    api = api
    docs = docs
    c1 = c1
    c2 = c2
    None = None
    Apps = {site, api, docs}
    Static = {site}
    Cached = {site, api}
    Contents = {0, 1, 2}
    MaxChanges = 1
    MaxFaults = 1
    Url <- Urls
    CertOf <- Certificates
    Requests <- Asked
    Hot <- Warm
    Wants <- AllWants
SPECIFICATION Spec
INVARIANTS TypeOK Routed Stable CacheFresh
